---------------------------- MODULE Spec2Model ----------------------------
(***************************************************************************)
(* konfig: resolution of YAML configuration into a flat namespace.         *)
(*                                                                         *)
(* Strings of the program are modelled as sequences of one-character       *)
(* strings, so that the path, placeholder and number grammars of the code  *)
(* are computed character by character.                                    *)
(***************************************************************************)
EXTENDS Integers, Sequences, FiniteSets, TLC

VARIABLES
    fs,      \* the file system: clean path -> file record (os.Stat / os.ReadFile)
    env,     \* the process environment: variable name -> value (os.Getenv)
    call,    \* the last API call and its arguments
    cfg,     \* the Config returned by the last Load / LoadWithProfile / mergeConfigs
    err,     \* the error returned by the last call
    ret,     \* the value returned by the last accessor call
    reads,   \* the paths whose content the last call read with os.ReadFile
    target,  \* the value the caller passed to LoadInto as its target
    heap,    \* the *config objects allocated: address -> data map and RWMutex
    gor      \* the goroutines calling into the package: id -> call in progress

vars == <<fs, env, call, cfg, err, ret, reads, target, heap, gor>>

----------------------------------------------------------------------------
(* Bounds of the model and constants of the program *)

\* const maxFileSize = 10 * 1024 * 1024
maxFileSize == 10485760
\* const maxNestingDepth = 32
maxNestingDepth == 32
\* documents are generated up to maxNestingDepth + DepthSlack levels
DepthSlack == 2
\* file sizes are generated up to maxFileSize + SizeSlack bytes
SizeSlack == 1
\* scalars are generated with up to MaxSegs segments (literal text or placeholder)
MaxSegs == 2

----------------------------------------------------------------------------
(* Strings *)

Digits == <<"0", "1", "2", "3", "4", "5", "6", "7", "8", "9">>

IsDigit(c) == \E i \in 1..10 : Digits[i] = c

DigitVal(c) == (CHOOSE i \in 1..10 : Digits[i] = c) - 1

\* s[i..] (1-based), the empty string when i is past the end
Tail_(s, i) == SubSeq(s, i, Len(s))

\* strings.HasPrefix(s[i-1:], sub)
HasPrefixAt(s, i, sub) ==
    /\ i + Len(sub) - 1 <= Len(s)
    /\ SubSeq(s, i, i + Len(sub) - 1) = sub

\* strings.Contains(s, sub)
Contains(s, sub) == \E i \in 1..(Len(s) + 1) : HasPrefixAt(s, i, sub)

\* strings.HasSuffix(s, suf)
HasSuffix(s, suf) ==
    /\ Len(suf) <= Len(s)
    /\ SubSeq(s, Len(s) - Len(suf) + 1, Len(s)) = suf

\* strings.TrimSuffix(s, suf)
TrimSuffix(s, suf) ==
    IF HasSuffix(s, suf) THEN SubSeq(s, 1, Len(s) - Len(suf)) ELSE s

\* the index of the last c in s, 0 when there is none
LastIndexOf(s, c) ==
    IF \E i \in 1..Len(s) : s[i] = c
    THEN CHOOSE i \in 1..Len(s) : s[i] = c /\ \A j \in (i + 1)..Len(s) : s[j] # c
    ELSE 0

\* the index of the first c in s at or after i, 0 when there is none
IndexFrom(s, i, c) ==
    IF \E j \in i..Len(s) : s[j] = c
    THEN CHOOSE j \in i..Len(s) : s[j] = c /\ \A k \in i..(j - 1) : s[k] # c
    ELSE 0

\* strings.Split(s, c) for a one-character separator
RECURSIVE Split(_, _)
Split(s, c) ==
    LET i == IndexFrom(s, 1, c)
    IN  IF i = 0 THEN <<s>>
        ELSE <<SubSeq(s, 1, i - 1)>> \o Split(Tail_(s, i + 1), c)

\* strings.Join(parts, sep)
RECURSIVE JoinWith(_, _)
JoinWith(parts, sep) ==
    IF Len(parts) = 0 THEN <<>>
    ELSE IF Len(parts) = 1 THEN parts[1]
    ELSE parts[1] \o sep \o JoinWith(Tail(parts), sep)

\* the decimal digits of a natural number
RECURSIVE NatText(_)
NatText(n) ==
    IF n < 10 THEN <<Digits[n + 1]>>
    ELSE NatText(n \div 10) \o <<Digits[(n % 10) + 1]>>

\* strconv.Itoa / %d
IntText(n) == IF n < 0 THEN <<"-">> \o NatText(-n) ELSE NatText(n)

----------------------------------------------------------------------------
(* Paths: path/filepath on a slash-separated system *)

RECURSIVE CleanElems(_, _, _)
\* the element stack of filepath.Clean: "" and "." are dropped, ".." pops an
\* element, stays at the front of a relative path and is dropped at the root
CleanElems(elems, out, rooted) ==
    IF Len(elems) = 0 THEN out
    ELSE LET e == Head(elems)
             rest == Tail(elems)
         IN  IF e = <<>> \/ e = <<".">> THEN CleanElems(rest, out, rooted)
             ELSE IF e = <<".", ".">>
                  THEN IF Len(out) > 0 /\ out[Len(out)] # <<".", ".">>
                       THEN CleanElems(rest, SubSeq(out, 1, Len(out) - 1), rooted)
                       ELSE IF rooted THEN CleanElems(rest, out, rooted)
                       ELSE CleanElems(rest, Append(out, e), rooted)
             ELSE CleanElems(rest, Append(out, e), rooted)

\* filepath.Clean
Clean(path) ==
    IF path = <<>> THEN <<".">>
    ELSE LET rooted == path[1] = "/"
             body == JoinWith(CleanElems(Split(path, "/"), <<>>, rooted), <<"/">>)
         IN  IF rooted THEN <<"/">> \o body
             ELSE IF body = <<>> THEN <<".">> ELSE body

\* filepath.Dir
Dir(path) == Clean(SubSeq(path, 1, LastIndexOf(path, "/")))

RECURSIVE TrimSlashes(_)
TrimSlashes(path) ==
    IF Len(path) > 0 /\ path[Len(path)] = "/"
    THEN TrimSlashes(SubSeq(path, 1, Len(path) - 1))
    ELSE path

\* filepath.Base
Base(path) ==
    IF path = <<>> THEN <<".">>
    ELSE LET p == TrimSlashes(path)
             q == Tail_(p, LastIndexOf(p, "/") + 1)
         IN  IF q = <<>> THEN <<"/">> ELSE q

\* filepath.Ext: the suffix from the last dot of the last element
Ext(path) ==
    LET d == LastIndexOf(path, ".")
    IN  IF d > LastIndexOf(path, "/") THEN Tail_(path, d) ELSE <<>>

\* filepath.Join(dir, name)
Join(dir, name) ==
    IF dir = <<>> THEN (IF name = <<>> THEN <<>> ELSE Clean(name))
    ELSE IF name = <<>> THEN Clean(dir)
    ELSE Clean(dir \o <<"/">> \o name)

----------------------------------------------------------------------------
(* Values: the interface{} values yaml.Unmarshal produces *)

StrV(s) == [kind |-> "str", v |-> s]
IntV(n) == [kind |-> "int", v |-> n]
BoolV(b) == [kind |-> "bool", v |-> b]
NullV == [kind |-> "null"]
\* a float64 with the decimal value m * 10^e, m not divisible by 10 (0 * 10^0 for zero)
FloatV(m, e) == [kind |-> "float", m |-> m, e |-> e]
\* map[string]interface{}: key -> value
MapV(entries) == [kind |-> "map", entries |-> entries]
\* []interface{}
SeqV(items) == [kind |-> "seq", items |-> items]

\* the characters of the model in byte order (for the sorted keys of a printed map)
Chars ==
    <<" ", "$", "+", "-", ".", "/", "0", "1", "2", "3", "4", "5", "6", "7", "8",
      "9", ":", "<", ">", "A", "B", "C", "D", "E", "F", "N", "P", "R", "S", "T",
      "U", "X", "[", "]", "_", "a", "b", "c", "d", "e", "f", "g", "h", "i", "k",
      "l", "m", "n", "o", "p", "r", "s", "t", "u", "v", "x", "y", "{", "}">>

CharRank(c) == CHOOSE i \in 1..Len(Chars) : Chars[i] = c

RECURSIVE StrLess(_, _)
\* a < b as Go compares strings
StrLess(a, b) ==
    IF b = <<>> THEN FALSE
    ELSE IF a = <<>> THEN TRUE
    ELSE IF a[1] = b[1] THEN StrLess(Tail(a), Tail(b))
    ELSE CharRank(a[1]) < CharRank(b[1])

RECURSIVE SortedKeys(_)
SortedKeys(S) ==
    IF S = {} THEN <<>>
    ELSE LET k == CHOOSE x \in S : \A y \in S \ {x} : StrLess(x, y)
         IN  <<k>> \o SortedKeys(S \ {k})

RECURSIVE Zeros(_)
Zeros(n) == IF n <= 0 THEN <<>> ELSE <<"0">> \o Zeros(n - 1)

\* %v of a float64: the shortest decimal, in exponent form below 1e-4 and from 1e21
FloatText(m, e) ==
    LET d == NatText(IF m < 0 THEN -m ELSE m)
        n == Len(d)
        x == n + e - 1
        sign == IF m < 0 THEN <<"-">> ELSE <<>>
        xs == NatText(IF x < 0 THEN -x ELSE x)
    IN  IF m = 0 THEN <<"0">>
        ELSE IF x < -4 \/ x >= 21
        THEN sign \o <<d[1]>> \o (IF n > 1 THEN <<".">> \o Tail(d) ELSE <<>>)
             \o <<"e", IF x < 0 THEN "-" ELSE "+">>
             \o (IF Len(xs) < 2 THEN <<"0">> ELSE <<>>) \o xs
        ELSE IF e >= 0 THEN sign \o d \o Zeros(e)
        ELSE IF n > -e
        THEN sign \o SubSeq(d, 1, n + e) \o <<".">> \o SubSeq(d, n + e + 1, n)
        ELSE sign \o <<"0", ".">> \o Zeros(-e - n) \o d

RECURSIVE Sprint(_)
\* fmt.Sprintf("%v", value)
Sprint(v) ==
    CASE v.kind = "str" -> v.v
      [] v.kind = "int" -> IntText(v.v)
      [] v.kind = "bool" ->
            IF v.v THEN <<"t", "r", "u", "e">> ELSE <<"f", "a", "l", "s", "e">>
      [] v.kind = "null" -> <<"<", "n", "i", "l", ">">>
      [] v.kind = "float" -> FloatText(v.m, v.e)
      [] v.kind = "seq" ->
            <<"[">> \o JoinWith([i \in 1..Len(v.items) |-> Sprint(v.items[i])], <<" ">>)
            \o <<"]">>
      [] v.kind = "map" ->
            LET ks == SortedKeys(DOMAIN v.entries)
            IN  <<"m", "a", "p", "[">>
                \o JoinWith([i \in 1..Len(ks) |->
                                ks[i] \o <<":">> \o Sprint(v.entries[ks[i]])], <<" ">>)
                \o <<"]">>

----------------------------------------------------------------------------
(* yaml_parser.go *)

RECURSIVE validateOffByOne(_, _)
\* validateYAMLComplexity with depth >= maxNestingDepth for depth > maxNestingDepth
validateOffByOne(data, depth) ==
    IF depth >= maxNestingDepth THEN FALSE
    ELSE CASE data.kind = "map" ->
                \A k \in DOMAIN data.entries :
                    validateOffByOne(data.entries[k], depth + 1)
           [] data.kind = "seq" ->
                \A i \in 1..Len(data.items) :
                    validateOffByOne(data.items[i], depth + 1)
           [] OTHER -> TRUE

RECURSIVE validateYAMLComplexity(_, _)
\* TRUE when the walk returns nil, FALSE when it returns the depth error
validateYAMLComplexity(data, depth) ==
    IF depth > maxNestingDepth THEN FALSE
    ELSE CASE data.kind = "map" ->
                \A k \in DOMAIN data.entries :
                    validateYAMLComplexity(data.entries[k], depth + 1)
           [] data.kind = "seq" ->
                \A i \in 1..Len(data.items) :
                    validateYAMLComplexity(data.items[i], depth + 1)
           [] OTHER -> TRUE

RECURSIVE flattenLeadingDot(_, _)
\* flattenPairs that joins the prefix and the key with a dot at the top level too
flattenLeadingDot(m, prefix) ==
    UNION {
        LET fullKey == prefix \o <<".">> \o key
            value == m[key]
        IN  IF value.kind = "map"
            THEN flattenLeadingDot(value.entries, fullKey)
            ELSE {<<fullKey, value>>}
        : key \in DOMAIN m }

RECURSIVE flattenPairs(_, _)
\* every assignment result[fullKey] = value that flattenMap makes for m
flattenPairs(m, prefix) ==
    UNION {
        LET fullKey == IF prefix # <<>> THEN prefix \o <<".">> \o key ELSE key
            value == m[key]
        IN  IF value.kind = "map"
            THEN flattenPairs(value.entries, fullKey)
            ELSE {<<fullKey, value>>}
        : key \in DOMAIN m }

\* the maps flattenMap can return: Go ranges over a map in an unspecified order,
\* and of several assignments to one key the last one made stays
flattenMap(m, prefix) ==
    LET pairs == flattenPairs(m, prefix)
        keys == {p[1] : p \in pairs}
        valuesOf(k) == {p[2] : p \in {q \in pairs : q[1] = k}}
        contested == {k \in keys : Cardinality(valuesOf(k)) > 1}
    IN  {[k \in keys |-> IF k \in contested THEN last[k] ELSE CHOOSE v \in valuesOf(k) : TRUE] :
            last \in {f \in [contested -> UNION {valuesOf(k) : k \in contested}] :
                          \A k \in contested : f[k] \in valuesOf(k)}}

\* os.Getenv
Getenv(e, name) == IF name \in DOMAIN e THEN e[name] ELSE <<>>

\* the match of envVarRegex \$\{([^}:]+)(?::([^}]*))?\} at the start of s
MatchAt(s) ==
    LET none == [ok |-> FALSE, len |-> 0, name |-> <<>>, def |-> <<>>]
        stops == {j \in 3..Len(s) : s[j] = "}" \/ s[j] = ":"}
        j == IF stops = {} THEN 0 ELSE CHOOSE x \in stops : \A y \in stops : x <= y
        k == IF j = 0 THEN 0 ELSE IndexFrom(s, j + 1, "}")
    IN  IF ~HasPrefixAt(s, 1, <<"$", "{">>) \/ j = 0 \/ j = 3 THEN none
        ELSE IF s[j] = "}"
        THEN [ok |-> TRUE, len |-> j, name |-> SubSeq(s, 3, j - 1), def |-> <<>>]
        ELSE IF k = 0 THEN none
        ELSE [ok |-> TRUE, len |-> k, name |-> SubSeq(s, 3, j - 1),
              def |-> SubSeq(s, j + 1, k - 1)]

\* a replacement function that prefers a non-empty default to the environment
substituteDefaultFirst(e, envVar, defaultVal) ==
    IF defaultVal # <<>> THEN defaultVal ELSE Getenv(e, envVar)

\* the replacement function of processEnvSubstitutions
Substitute(e, envVar, defaultVal) ==
    IF Getenv(e, envVar) # <<>> THEN Getenv(e, envVar) ELSE defaultVal

RECURSIVE ReplaceAllEnv(_, _)
\* envVarRegex.ReplaceAllStringFunc: leftmost matches, left to right, not rescanned
ReplaceAllEnv(s, e) ==
    LET starts == {i \in 1..Len(s) : MatchAt(Tail_(s, i)).ok}
        i == CHOOSE x \in starts : \A y \in starts : x <= y
        m == MatchAt(Tail_(s, i))
    IN  IF starts = {} THEN s
        ELSE SubSeq(s, 1, i - 1) \o Substitute(e, m.name, m.def)
             \o ReplaceAllEnv(Tail_(s, i + m.len), e)

\* processEnvSubstitutions that stores the printed text of every value
substitutionsStoreText(m, e) ==
    [key \in DOMAIN m |-> StrV(ReplaceAllEnv(Sprint(m[key]), e))]

processEnvSubstitutions(m, e) ==
    [key \in DOMAIN m |->
        LET strValue == Sprint(m[key])
            processedValue == ReplaceAllEnv(strValue, e)
        IN  IF processedValue # strValue THEN StrV(processedValue) ELSE m[key]]

----------------------------------------------------------------------------
(* The file system *)

DirRec == [kind |-> "dir", size |-> 4096]
\* a regular file of `size` bytes; yaml is what yaml.Unmarshal makes of its bytes
FileRec(size, yaml) == [kind |-> "file", size |-> size, yaml |-> yaml]
\* yaml.Unmarshal succeeded with this map[string]interface{}
YamlOk(entries) == [ok |-> TRUE, root |-> entries]
\* yaml.Unmarshal returned an error
YamlBad == [ok |-> FALSE]

\* os.Stat(path) returns no error
StatOk(f, path) == path # <<>> /\ Clean(path) \in DOMAIN f

\* fileExists
fileExists(f, path) == StatOk(f, path)

----------------------------------------------------------------------------
(* Errors and configs *)

NoErr == [type |-> "nil"]
\* an error made by fmt.Errorf
PlainErr(message) == [type |-> "error", message |-> message]
\* &ConfigError{Type, Path, Message, Cause}
ConfigError(type, path, message, cause) ==
    [type |-> type, path |-> path, message |-> message, cause |-> cause]

\* the nil Config interface value
NilConfig == [kind |-> "nil"]
\* a Config interface value holding a nil *config
NilPtrConfig == [kind |-> "nilptr"]
\* a Config interface value holding &config{data}
Cfg(data) == [kind |-> "config", data |-> data]

\* the conversion of a *config to the Config interface at a return
AsInterface(ptr) == IF ptr = NilConfig THEN NilPtrConfig ELSE ptr

\* parseYAMLFile with the size check fileInfo.Size() >= maxFileSize
parseSizeOffByOne(f, filePath) ==
    LET cleanPath == Clean(filePath)
        fail(msg, rd) == [ok |-> FALSE, result |-> <<>>, cause |-> PlainErr(msg),
                          reads |-> rd]
    IN  IF Contains(filePath, <<".", ".">>) THEN fail("path traversal not allowed", {})
        ELSE IF ~StatOk(f, cleanPath) THEN fail("failed to access file", {})
        ELSE IF f[cleanPath].size >= maxFileSize THEN fail("file too large", {})
        ELSE IF f[cleanPath].kind = "dir" THEN fail("failed to read file", {})
        ELSE IF ~f[cleanPath].yaml.ok THEN fail("failed to parse YAML", {cleanPath})
        ELSE IF ~validateYAMLComplexity(MapV(f[cleanPath].yaml.root), 0)
        THEN fail("YAML too complex", {cleanPath})
        ELSE [ok |-> TRUE, result |-> f[cleanPath].yaml.root, cause |-> NoErr,
              reads |-> {cleanPath}]

\* parseYAMLFile that cleans the path without looking for ".." first
parseCleansFirst(f, filePath) ==
    LET cleanPath == Clean(filePath)
        fail(msg, rd) == [ok |-> FALSE, result |-> <<>>, cause |-> PlainErr(msg),
                          reads |-> rd]
    IN  IF ~StatOk(f, cleanPath) THEN fail("failed to access file", {})
        ELSE IF f[cleanPath].size > maxFileSize THEN fail("file too large", {})
        ELSE IF f[cleanPath].kind = "dir" THEN fail("failed to read file", {})
        ELSE IF ~f[cleanPath].yaml.ok THEN fail("failed to parse YAML", {cleanPath})
        ELSE IF ~validateYAMLComplexity(MapV(f[cleanPath].yaml.root), 0)
        THEN fail("YAML too complex", {cleanPath})
        ELSE [ok |-> TRUE, result |-> f[cleanPath].yaml.root, cause |-> NoErr,
              reads |-> {cleanPath}]

\* parseYAMLFile: result and error, with the paths it read
parseYAMLFile(f, filePath) ==
    LET cleanPath == Clean(filePath)
        fail(msg, rd) == [ok |-> FALSE, result |-> <<>>, cause |-> PlainErr(msg),
                          reads |-> rd]
    IN  IF Contains(filePath, <<".", ".">>) THEN fail("path traversal not allowed", {})
        ELSE IF ~StatOk(f, cleanPath) THEN fail("failed to access file", {})
        ELSE IF f[cleanPath].size > maxFileSize THEN fail("file too large", {})
        ELSE IF f[cleanPath].kind = "dir" THEN fail("failed to read file", {})
        ELSE IF ~f[cleanPath].yaml.ok THEN fail("failed to parse YAML", {cleanPath})
        ELSE IF ~validateYAMLComplexity(MapV(f[cleanPath].yaml.root), 0)
        THEN fail("YAML too complex", {cleanPath})
        ELSE [ok |-> TRUE, result |-> f[cleanPath].yaml.root, cause |-> NoErr,
              reads |-> {cleanPath}]

\* loadFromFile: the (*config, error) pairs it can return, with the paths read
loadFromFile(f, e, filePath) ==
    IF ~fileExists(f, filePath)
    THEN {[cfg |-> NilConfig,
           err |-> ConfigError("file_not_found", filePath,
                               "configuration file not found", NoErr),
           reads |-> {}]}
    ELSE LET parsed == parseYAMLFile(f, filePath)
         IN  IF ~parsed.ok
             THEN {[cfg |-> NilConfig,
                    err |-> ConfigError("parse_error", filePath,
                                        "failed to parse YAML file", parsed.cause),
                    reads |-> parsed.reads]}
             ELSE {[cfg |-> Cfg(processEnvSubstitutions(flatMap, e)),
                    err |-> NoErr,
                    reads |-> parsed.reads]
                   : flatMap \in flattenMap(parsed.result, <<>>)}

\* generateProfilePath that tries the base file's own extension only
profilePathOwnExtOnly(f, basePath, profile) ==
    LET filename == Base(basePath)
        ext == Ext(filename)
    IN  Join(Dir(basePath), TrimSuffix(filename, ext) \o <<"-">> \o profile \o ext)

\* generateProfilePath
generateProfilePath(f, basePath, profile) ==
    LET dir == Dir(basePath)
        filename == Base(basePath)
        ext == Ext(filename)
        nameWithoutExt == TrimSuffix(filename, ext)
        extensions ==
            IF ext = <<".", "y", "m", "l">> THEN <<ext, <<".", "y", "a", "m", "l">>>>
            ELSE IF ext = <<".", "y", "a", "m", "l">> THEN <<ext, <<".", "y", "m", "l">>>>
            ELSE <<ext>>
        try(i) == Join(dir, nameWithoutExt \o <<"-">> \o profile \o extensions[i])
        found == {i \in 1..Len(extensions) : fileExists(f, try(i))}
    IN  IF found # {} THEN try(CHOOSE i \in found : \A j \in found : i <= j)
        ELSE try(1)

\* mergeConfigs that copies the override first and the base config over it
mergeBaseWins(base, override) ==
    Cfg([key \in DOMAIN base.data \cup DOMAIN override.data |->
            IF key \in DOMAIN base.data THEN base.data[key]
            ELSE override.data[key]])

\* mergeConfigs: the data of the new config
mergeConfigs(base, override) ==
    Cfg([key \in DOMAIN base.data \cup DOMAIN override.data |->
            IF key \in DOMAIN override.data THEN override.data[key]
            ELSE base.data[key]])

\* Load: the (Config, error) pairs it can return, with the paths read
LoadResults(f, e, filePath) ==
    IF filePath = <<>>
    THEN {[cfg |-> NilConfig,
           err |-> ConfigError("validation_error", filePath,
                               "file path cannot be empty", NoErr),
           reads |-> {}]}
    ELSE {[r EXCEPT !.cfg = AsInterface(r.cfg)] : r \in loadFromFile(f, e, filePath)}

\* LoadWithProfile that returns the base config next to the profile file's error
profileOutcomeKeepsBase(base, prof, hasProfile, profilePath) ==
    IF base.err # NoErr
    THEN [cfg |-> NilConfig, err |-> base.err, reads |-> base.reads]
    ELSE IF ~hasProfile
    THEN [cfg |-> base.cfg, err |-> NoErr, reads |-> base.reads]
    ELSE IF prof.err # NoErr
    THEN [cfg |-> base.cfg,
          err |-> ConfigError("parse_error", profilePath,
                              "failed to load profile configuration", prof.err),
          reads |-> base.reads \cup prof.reads]
    ELSE [cfg |-> mergeConfigs(base.cfg, prof.cfg), err |-> NoErr,
          reads |-> base.reads \cup prof.reads]

\* the outcome of LoadWithProfile once the base and, where it exists, the profile
\* file have been loaded
ProfileOutcome(base, prof, hasProfile, profilePath) ==
    IF base.err # NoErr
    THEN [cfg |-> NilConfig, err |-> base.err, reads |-> base.reads]
    ELSE IF ~hasProfile
    THEN [cfg |-> base.cfg, err |-> NoErr, reads |-> base.reads]
    ELSE IF prof.err # NoErr
    THEN [cfg |-> NilConfig,
          err |-> ConfigError("parse_error", profilePath,
                              "failed to load profile configuration", prof.err),
          reads |-> base.reads \cup prof.reads]
    ELSE [cfg |-> mergeConfigs(base.cfg, prof.cfg), err |-> NoErr,
          reads |-> base.reads \cup prof.reads]

\* LoadWithProfile: the (Config, error) pairs it can return, with the paths read
LoadWithProfileResults(f, e, filePath, profile) ==
    IF filePath = <<>>
    THEN {[cfg |-> NilConfig,
           err |-> ConfigError("validation_error", filePath,
                               "file path cannot be empty", NoErr),
           reads |-> {}]}
    ELSE IF profile = <<>> THEN LoadResults(f, e, filePath)
    ELSE LET profilePath == generateProfilePath(f, filePath, profile)
             hasProfile == fileExists(f, profilePath)
         IN  {ProfileOutcome(base, prof, hasProfile, profilePath)
              : base \in loadFromFile(f, e, filePath),
                prof \in IF hasProfile THEN loadFromFile(f, e, profilePath)
                         ELSE {[cfg |-> NilConfig, err |-> NoErr, reads |-> {}]}}

----------------------------------------------------------------------------
(* strconv and time: the parsers the accessors call *)

AllDigits(s) == Len(s) > 0 /\ \A i \in 1..Len(s) : IsDigit(s[i])

RECURSIVE NatVal(_)
NatVal(s) ==
    IF s = <<>> THEN 0
    ELSE NatVal(SubSeq(s, 1, Len(s) - 1)) * 10 + DigitVal(s[Len(s)])

RECURSIVE StripZeros(_)
StripZeros(s) == IF Len(s) > 1 /\ s[1] = "0" THEN StripZeros(Tail(s)) ELSE s

\* the digits of 1 << 63
TwoTo63Text ==
    <<"9", "2", "2", "3", "3", "7", "2", "0", "3", "6",
      "8", "5", "4", "7", "7", "5", "8", "0", "8">>

\* the magnitude written by the digits d fits an int64 of the given sign
FitsInt64(d, neg) ==
    LET z == StripZeros(d)
    IN  \/ Len(z) < 19
        \/ Len(z) = 19 /\ (StrLess(z, TwoTo63Text) \/ (neg /\ z = TwoTo63Text))

HasSign(s) == s # <<>> /\ (s[1] = "+" \/ s[1] = "-")

\* strconv.Atoi: [ok, v]
Atoi(s) ==
    LET neg == s # <<>> /\ s[1] = "-"
        d == IF HasSign(s) THEN Tail(s) ELSE s
    IN  IF ~AllDigits(d) \/ ~FitsInt64(d, neg) THEN [ok |-> FALSE, v |-> 0]
        ELSE [ok |-> TRUE, v |-> IF neg THEN -NatVal(d) ELSE NatVal(d)]

\* strconv.ParseBool: [ok, v]
ParseBool(s) ==
    IF s \in {<<"1">>, <<"t">>, <<"T">>, <<"T", "R", "U", "E">>,
              <<"t", "r", "u", "e">>, <<"T", "r", "u", "e">>}
    THEN [ok |-> TRUE, v |-> TRUE]
    ELSE IF s \in {<<"0">>, <<"f">>, <<"F">>, <<"F", "A", "L", "S", "E">>,
                   <<"f", "a", "l", "s", "e">>, <<"F", "a", "l", "s", "e">>}
    THEN [ok |-> TRUE, v |-> FALSE]
    ELSE [ok |-> FALSE, v |-> FALSE]

\* the leading digits of the smallest decimal that rounds to +Inf, 1.797...e308
MaxFloatText ==
    <<"1", "7", "9", "7", "6", "9", "3", "1", "3", "4", "8", "6", "2", "3", "1", "5", "8">>

\* the decimal d * 10^e (d without leading zeros) is in the range of a float64
FitsFloat64(d, e) ==
    \/ Len(d) + e < 309
    \/ Len(d) + e = 309 /\ StrLess(d, MaxFloatText)

RECURSIVE NormFloat(_, _)
\* the float m * 10^e with the trailing zeros of m moved into e
NormFloat(m, e) ==
    IF m = 0 THEN FloatV(0, 0)
    ELSE IF m % 10 = 0 THEN NormFloat(m \div 10, e + 1)
    ELSE FloatV(m, e)

\* the length of the run of digits of s from index i
DigitRun(s, i) ==
    LET stop == {j \in i..Len(s) : ~IsDigit(s[j])}
    IN  IF stop = {} THEN Len(s) - i + 1
        ELSE (CHOOSE j \in stop : \A k \in stop : j <= k) - i

\* strconv.ParseFloat(s, 64) on decimal literals, sign? digits? (. digits?)?
\* ((e|E) sign? digits)?, with at least one mantissa digit: [ok, v]
ParseFloat(s) ==
    LET neg == s # <<>> /\ s[1] = "-"
        b == IF HasSign(s) THEN Tail(s) ELSE s
        ni == DigitRun(b, 1)
        int == SubSeq(b, 1, ni)
        dot == ni < Len(b) /\ b[ni + 1] = "."
        nf == IF dot THEN DigitRun(b, ni + 2) ELSE 0
        frac == IF dot THEN SubSeq(b, ni + 2, ni + 1 + nf) ELSE <<>>
        rest == Tail_(b, ni + 1 + (IF dot THEN 1 + nf ELSE 0))
        hasExp == rest # <<>> /\ (rest[1] = "e" \/ rest[1] = "E")
        ex == IF hasExp THEN Tail(rest) ELSE <<>>
        exNeg == ex # <<>> /\ ex[1] = "-"
        exD == IF HasSign(ex) THEN Tail(ex) ELSE ex
        x == IF hasExp /\ AllDigits(exD)
             THEN (IF exNeg THEN -NatVal(exD) ELSE NatVal(exD)) ELSE 0
        mant == NatVal(int \o frac)
        bad == [ok |-> FALSE, v |-> FloatV(0, 0)]
    IN  IF ni + nf = 0 THEN bad
        ELSE IF rest # <<>> /\ ~(hasExp /\ AllDigits(exD)) THEN bad
        ELSE IF mant # 0 /\ ~FitsFloat64(StripZeros(int \o frac), x - nf) THEN bad
        ELSE [ok |-> TRUE, v |-> NormFloat(IF neg THEN -mant ELSE mant, x - nf)]

RECURSIVE Pow10(_)
Pow10(n) == IF n <= 0 THEN 1 ELSE 10 * Pow10(n - 1)

\* a time.Duration of sign * (sec seconds + nsec nanoseconds), 0 <= nsec < 10^9
DurV(sign, sec, nsec) ==
    IF sec = 0 /\ nsec = 0 THEN [sign |-> 1, sec |-> 0, nsec |-> 0]
    ELSE [sign |-> sign, sec |-> sec, nsec |-> nsec]

\* the units of time.ParseDuration: whole seconds, or a power of ten of nanoseconds
UnitOf(u) ==
    CASE u = <<"n", "s">> -> [ok |-> TRUE, sec |-> 0, k |-> 0]
      [] u = <<"u", "s">> -> [ok |-> TRUE, sec |-> 0, k |-> 3]
      [] u = <<"m", "s">> -> [ok |-> TRUE, sec |-> 0, k |-> 6]
      [] u = <<"s">> -> [ok |-> TRUE, sec |-> 1, k |-> 9]
      [] u = <<"m">> -> [ok |-> TRUE, sec |-> 60, k |-> 9]
      [] u = <<"h">> -> [ok |-> TRUE, sec |-> 3600, k |-> 9]
      [] OTHER -> [ok |-> FALSE, sec |-> 0, k |-> 0]

\* the length of the unit of s from index i: up to the next digit or dot
UnitRun(s, i) ==
    LET stop == {j \in i..Len(s) : IsDigit(s[j]) \/ s[j] = "."}
    IN  IF stop = {} THEN Len(s) - i + 1
        ELSE (CHOOSE j \in stop : \A k \in stop : j <= k) - i

RECURSIVE DurationTerms(_, _, _)
\* the loop of time.ParseDuration over the terms number unit: [ok, sec, nsec]
DurationTerms(s, sec, nsec) ==
    IF s = <<>> THEN [ok |-> TRUE, sec |-> sec + nsec \div 1000000000,
                      nsec |-> nsec % 1000000000]
    ELSE LET ni == DigitRun(s, 1)
             dot == ni < Len(s) /\ s[ni + 1] = "."
             nf == IF dot THEN DigitRun(s, ni + 2) ELSE 0
             after == ni + (IF dot THEN 1 + nf ELSE 0)
             nu == UnitRun(s, after + 1)
             unit == UnitOf(SubSeq(s, after + 1, after + nu))
             v == NatVal(SubSeq(s, 1, ni))
             f == NatVal(SubSeq(s, ni + 2, ni + 1 + nf))
             q == Pow10(9 - unit.k)
             bad == [ok |-> FALSE, sec |-> 0, nsec |-> 0]
         IN  IF ni + nf = 0 \/ nu = 0 \/ ~unit.ok THEN bad
             ELSE IF unit.k = 9
             THEN DurationTerms(Tail_(s, after + nu + 1),
                      sec + v * unit.sec + (f * unit.sec) \div Pow10(nf),
                      nsec + ((f * unit.sec) % Pow10(nf)) * Pow10(9 - nf))
             ELSE DurationTerms(Tail_(s, after + nu + 1),
                      sec + v \div q,
                      nsec + (v % q) * Pow10(unit.k)
                           + (IF unit.k >= nf THEN f * Pow10(unit.k - nf)
                              ELSE f \div Pow10(nf - unit.k)))

\* time.ParseDuration: [ok, v]
ParseDuration(s) ==
    LET neg == s # <<>> /\ s[1] = "-"
        b == IF HasSign(s) THEN Tail(s) ELSE s
        t == DurationTerms(b, 0, 0)
    IN  IF b = <<"0">> THEN [ok |-> TRUE, v |-> DurV(1, 0, 0)]
        ELSE IF b = <<>> \/ ~t.ok THEN [ok |-> FALSE, v |-> DurV(1, 0, 0)]
        ELSE [ok |-> TRUE, v |-> DurV(IF neg THEN -1 ELSE 1, t.sec, t.nsec)]

----------------------------------------------------------------------------
(* The accessors of config *)

\* config.Get: (value, exists)
Get(data, key) ==
    IF key \in DOMAIN data THEN [value |-> data[key], exists |-> TRUE]
    ELSE [value |-> NullV, exists |-> FALSE]

GetString(data, key) ==
    IF Get(data, key).exists THEN Sprint(Get(data, key).value) ELSE <<>>

\* GetInt that returns what it is given to parse as -1 when strconv.Atoi fails
getIntMinusOne(data, key) ==
    LET str == Sprint(Get(data, key).value)
    IN  IF ~Get(data, key).exists THEN 0
        ELSE IF str # <<>> /\ Atoi(str).ok THEN Atoi(str).v
        ELSE -1

GetInt(data, key) ==
    LET str == Sprint(Get(data, key).value)
    IN  IF Get(data, key).exists /\ str # <<>> /\ Atoi(str).ok THEN Atoi(str).v
        ELSE 0

GetBool(data, key) ==
    LET str == Sprint(Get(data, key).value)
    IN  IF Get(data, key).exists /\ str # <<>> /\ ParseBool(str).ok
        THEN ParseBool(str).v
        ELSE FALSE

GetFloat64(data, key) ==
    LET str == Sprint(Get(data, key).value)
    IN  IF Get(data, key).exists /\ str # <<>> /\ ParseFloat(str).ok
        THEN ParseFloat(str).v
        ELSE FloatV(0, 0)

GetDuration(data, key) ==
    LET str == Sprint(Get(data, key).value)
    IN  IF Get(data, key).exists /\ str # <<>> /\ ParseDuration(str).ok
        THEN ParseDuration(str).v
        ELSE DurV(1, 0, 0)

GetStringWithDefault(data, key, defaultValue) ==
    IF GetString(data, key) # <<>> THEN GetString(data, key) ELSE defaultValue

GetIntWithDefault(data, key, defaultValue) ==
    IF Get(data, key).exists /\ Sprint(Get(data, key).value) # <<>>
    THEN GetInt(data, key)
    ELSE defaultValue

GetBoolWithDefault(data, key, defaultValue) ==
    IF Get(data, key).exists /\ Sprint(Get(data, key).value) # <<>>
    THEN GetBool(data, key)
    ELSE defaultValue

----------------------------------------------------------------------------
(* The calls of the API, as actions *)

NoRet == [kind |-> "none"]

\* cfg, err := Load(filePath)
Load(filePath) ==
    \E r \in LoadResults(fs, env, filePath) :
        /\ call' = [op |-> "Load", path |-> filePath, profile |-> <<>>]
        /\ cfg' = r.cfg
        /\ err' = r.err
        /\ reads' = r.reads
        /\ ret' = NoRet
        /\ UNCHANGED <<fs, env, target, heap, gor>>

\* cfg, err := LoadWithProfile(filePath, profile)
LoadWithProfile(filePath, profile) ==
    \E r \in LoadWithProfileResults(fs, env, filePath, profile) :
        /\ call' = [op |-> "LoadWithProfile", path |-> filePath, profile |-> profile]
        /\ cfg' = r.cfg
        /\ err' = r.err
        /\ reads' = r.reads
        /\ ret' = NoRet
        /\ UNCHANGED <<fs, env, target, heap, gor>>

\* result := mergeConfigs(&config{base}, &config{override})
MergeConfigs(base, override) ==
    /\ call' = [op |-> "mergeConfigs", base |-> base, override |-> override]
    /\ cfg' = mergeConfigs(Cfg(base), Cfg(override))
    /\ err' = NoErr
    /\ reads' = {}
    /\ ret' = NoRet
    /\ UNCHANGED <<fs, env, target, heap, gor>>

\* an accessor call on the Config held, returning v
Accessor(op, key, def, v) ==
    /\ cfg.kind = "config"
    /\ call' = [op |-> op, key |-> key, def |-> def]
    /\ ret' = [kind |-> "value", v |-> v]
    /\ UNCHANGED <<fs, env, cfg, err, reads, target, heap, gor>>

CallGetString(key) == Accessor("GetString", key, NoRet, GetString(cfg.data, key))
CallGetInt(key) == Accessor("GetInt", key, NoRet, GetInt(cfg.data, key))
CallGetBool(key) == Accessor("GetBool", key, NoRet, GetBool(cfg.data, key))
CallGetFloat64(key) == Accessor("GetFloat64", key, NoRet, GetFloat64(cfg.data, key))
CallGetDuration(key) == Accessor("GetDuration", key, NoRet, GetDuration(cfg.data, key))
CallGetStringWithDefault(key, def) ==
    Accessor("GetStringWithDefault", key, def, GetStringWithDefault(cfg.data, key, def))
CallGetIntWithDefault(key, def) ==
    Accessor("GetIntWithDefault", key, def, GetIntWithDefault(cfg.data, key, def))
CallGetBoolWithDefault(key, def) ==
    Accessor("GetBoolWithDefault", key, def, GetBoolWithDefault(cfg.data, key, def))

----------------------------------------------------------------------------
(* The inputs the specifications draw *)

yamlExt == <<".", "y", "a", "m", "l">>
ymlExt == <<".", "y", "m", "l">>
txtExt == <<".", "t", "x", "t">>

\* the base file is <dir>/a<ext>, the profile is "d"
Stem == <<"a">>
DevProfile == <<"d">>
ConfDir == <<"c">>

\* the path of name in directory dir, as a caller writes it
InDir(dir, name) == IF dir = <<>> THEN name ELSE dir \o <<"/">> \o name

\* the name {stem}-{profile}{ext}
ProfileFile(stem, profile, ext) == stem \o <<"-">> \o profile \o ext

K(c) == <<c>>

\* server: {port: 8080, host: l}, env: b
BaseDoc ==
    K("s") :> MapV(K("p") :> IntV(8080) @@ K("h") :> StrV(<<"l">>))
    @@ K("e") :> StrV(<<"b">>)

\* server: {port: 3000}, env: d, debug: true
OverlayDoc ==
    K("s") :> MapV(K("p") :> IntV(3000)) @@ K("e") :> StrV(<<"d">>)
    @@ K("g") :> BoolV(TRUE)

SmallDoc == K("k") :> StrV(<<"v">>)

RECURSIVE Nested(_, _)
\* a node with n levels below it: mappings all the way down ("map", "side"), or
\* mappings down to a sequence of a sequence of the leaf ("mix")
Nested(n, shape) ==
    IF n = 0 THEN StrV(<<"v">>)
    ELSE IF shape = "mix" /\ n <= 2 THEN SeqV(<<Nested(n - 1, shape)>>)
    ELSE MapV(K("n") :> Nested(n - 1, shape))

\* a document whose deepest node is n levels below the root mapping
DeepDoc(n, shape) ==
    IF shape = "side"
    THEN K("r") :> Nested(n - 1, shape) @@ K("t") :> IntV(1)
    ELSE K("r") :> Nested(n - 1, shape)

Shapes == {"map", "mix", "side"}

Absent == [kind |-> "absent"]

GoodBase == FileRec(64, YamlOk(BaseDoc))
GoodOverlay == FileRec(48, YamlOk(OverlayDoc))
Malformed == FileRec(10, YamlBad)

SizedFiles ==
    {FileRec(n, YamlOk(SmallDoc)) : n \in (maxFileSize - 1)..(maxFileSize + SizeSlack)}
    \cup {FileRec(maxFileSize + 1, YamlBad)}

DeepFiles ==
    {FileRec(4096, YamlOk(DeepDoc(n, shape))) :
        n \in (maxNestingDepth - 1)..(maxNestingDepth + DepthSlack), shape \in Shapes}

\* the extension a profile file may have besides ext
OtherExt(ext) == IF ext = yamlExt THEN ymlExt ELSE yamlExt

\* the file system with directory c and, in directory dir, the base file a<ext>
\* and the profile files a-d<ext> and a-d<OtherExt(ext)>, each with the given content
FsOf(dir, ext, base, devOwn, devOther) ==
    LET all == {<<ConfDir, DirRec>>,
                <<InDir(dir, Stem \o ext), base>>,
                <<InDir(dir, ProfileFile(Stem, DevProfile, ext)), devOwn>>,
                <<InDir(dir, ProfileFile(Stem, DevProfile, OtherExt(ext))), devOther>>}
        present == {x \in all : x[2] # Absent}
    IN  [p \in {x[1] : x \in present} |-> (CHOOSE x \in present : x[1] = p)[2]]

Dirs == {<<>>, ConfDir}
Exts == {yamlExt, ymlExt, txtExt}

\* file systems that vary the profile files
ProfileFileSystems ==
    {FsOf(dir, ext, base, devOwn, devOther) :
        dir \in Dirs, ext \in Exts, base \in {GoodBase, Malformed},
        devOwn \in {Absent, GoodOverlay, Malformed},
        devOther \in {Absent, GoodOverlay, Malformed}}

\* file systems that vary the size and the nesting of the base file
ContentFileSystems ==
    {FsOf(ConfDir, yamlExt, base, devOwn, Absent) :
        base \in SizedFiles \cup DeepFiles, devOwn \in {Absent, GoodOverlay}}

\* the directories a caller names the base file in
CallDirs ==
    {<<>>, ConfDir, <<".", "/", "c">>, <<"c", "/", ".", ".", "/", "c">>, <<".", ".">>}

CallPaths == {<<>>, ConfDir} \cup {InDir(d, Stem \o e) : d \in CallDirs, e \in Exts}

Profiles == {<<>>, DevProfile}

NoEnv == <<>>

\* no target passed
NoTarget == [kind |-> "none"]

Idle ==
    /\ call = [op |-> "none"]
    /\ cfg = NilConfig
    /\ err = NoErr
    /\ ret = NoRet
    /\ reads = {}
    /\ target = NoTarget
    /\ heap = <<>>
    /\ gor = <<>>

----------------------------------------------------------------------------
(* Spec: Load and LoadWithProfile over the file systems *)

Init ==
    /\ fs \in ProfileFileSystems \cup ContentFileSystems
    /\ env = NoEnv
    /\ Idle

DoLoad == \E p \in CallPaths : Load(p)

DoLoadWithProfile == \E p \in CallPaths, profile \in Profiles : LoadWithProfile(p, profile)

Next == DoLoad \/ DoLoadWithProfile

Spec == Init /\ [][Next]_vars

----------------------------------------------------------------------------
(* What the claims speak of *)

RECURSIVE Height(_)
\* the number of levels below a node: 0 for a scalar and for an empty container
Height(node) ==
    LET below == CASE node.kind = "map" ->
                        {Height(node.entries[k]) : k \in DOMAIN node.entries}
                   [] node.kind = "seq" ->
                        {Height(node.items[i]) : i \in 1..Len(node.items)}
                   [] OTHER -> {}
    IN  IF below = {} THEN 0
        ELSE 1 + CHOOSE h \in below : \A g \in below : g <= h

\* the file a path names
FileAt(path) == fs[Clean(path)]

\* the path names a regular file and holds no ".."
PlainFile(path) ==
    /\ ~Contains(path, <<".", ".">>)
    /\ fileExists(fs, path)
    /\ FileAt(path).kind = "file"

\* the nesting of the document at path, in levels below the root mapping
Nesting(path) == Height(MapV(FileAt(path).yaml.root))

\* the file at path is within the size limit and parses within the nesting limit
WellFormed(path) ==
    /\ PlainFile(path)
    /\ FileAt(path).size <= maxFileSize
    /\ FileAt(path).yaml.ok
    /\ Nesting(path) <= maxNestingDepth

\* the call handed a namespace to the caller
Loaded == err = NoErr /\ cfg.kind = "config"

\* the call handed no namespace to the caller: a nil Config or a nil *config
NoNamespace == cfg \in {NilConfig, NilPtrConfig}

\* the call failed with a parse_error whose cause has this message
ParseErrorOf(message) ==
    /\ err.type = "parse_error"
    /\ err.cause = PlainErr(message)
    /\ NoNamespace

AcceptedExts == {yamlExt, ymlExt}

----------------------------------------------------------------------------
(* Claims checked under Spec *)

\* the call loaded the base file at path and overlaid the profile file at q
Overlaid(path, q) ==
    IF \A o \in loadFromFile(fs, env, q) : o.err = NoErr
    THEN /\ err = NoErr
         /\ cfg \in {mergeConfigs(b.cfg, o.cfg) :
                        b \in loadFromFile(fs, env, path), o \in loadFromFile(fs, env, q)}
    ELSE /\ err # NoErr
         /\ err.path = Clean(q)

\* C2: LoadWithProfile(path, p) of a base file with an accepted extension and a
\* non-empty profile p overlays {basename}-{p}{ext} from the base file's directory
\* when it exists, else the same name under the other accepted extension when that
\* exists; when neither exists, or p is empty, the result is that of Load(path).
C2_ProfileOverlay ==
    \A dir \in CallDirs, ext \in AcceptedExts :
        LET path == InDir(dir, Stem \o ext)
            own == InDir(dir, ProfileFile(Stem, call.profile, ext))
            other == InDir(dir, ProfileFile(Stem, call.profile, OtherExt(ext)))
        IN  ( /\ call.op = "LoadWithProfile"
              /\ call.path = path
              /\ \A b \in loadFromFile(fs, env, path) : b.err = NoErr )
            => IF call.profile # <<>> /\ fileExists(fs, own) THEN Overlaid(path, own)
               ELSE IF call.profile # <<>> /\ fileExists(fs, other)
               THEN Overlaid(path, other)
               ELSE /\ err = NoErr
                    /\ cfg \in {r.cfg : r \in LoadResults(fs, env, path)}

\* C2 witness: the profile file exists under the other extension only and was overlaid
C2_Witness ==
    /\ call.op = "LoadWithProfile"
    /\ call.path = InDir(ConfDir, Stem \o ymlExt)
    /\ call.profile = DevProfile
    /\ ~fileExists(fs, InDir(ConfDir, ProfileFile(Stem, DevProfile, ymlExt)))
    /\ fileExists(fs, InDir(ConfDir, ProfileFile(Stem, DevProfile, yamlExt)))
    /\ Loaded
    /\ K("g") \in DOMAIN cfg.data
    /\ cfg.data[<<"s", ".", "h">>] = StrV(<<"l">>)

\* C3: Load of a document nested more than 32 levels deep fails with a
\* parse_error (YAML too complex); Load of a document nested exactly 32 levels
\* deep succeeds.
C3_NestingLimit ==
    ( /\ call.op = "Load"
      /\ PlainFile(call.path)
      /\ FileAt(call.path).size <= maxFileSize
      /\ FileAt(call.path).yaml.ok )
    => /\ Nesting(call.path) > maxNestingDepth => ParseErrorOf("YAML too complex")
       /\ Nesting(call.path) = maxNestingDepth => Loaded

\* C3 witness: a document of 33 levels was rejected
C3_Witness ==
    /\ call.op = "Load"
    /\ PlainFile(call.path)
    /\ FileAt(call.path).yaml.ok
    /\ Nesting(call.path) = maxNestingDepth + 1
    /\ ParseErrorOf("YAML too complex")

C6_ExtensionRejected ==
    ( /\ call.op = "Load"
      /\ Ext(call.path) \notin AcceptedExts
      /\ WellFormed(call.path) )
    => err.type = "validation_error"

\* C8: whenever Load or LoadWithProfile returns an error it hands no namespace to
\* the caller (the Config is nil or holds a nil *config), also when the base file
\* loaded and the existing profile file failed to load.
C8_AllOrNothing ==
    ( call.op \in {"Load", "LoadWithProfile"} /\ err # NoErr ) => NoNamespace

\* C8 witness: the base file loaded, the profile file failed, nothing was returned
C8_Witness ==
    /\ call.op = "LoadWithProfile"
    /\ call.profile = DevProfile
    /\ WellFormed(call.path)
    /\ err # NoErr
    /\ err.message = "failed to load profile configuration"
    /\ NoNamespace

----------------------------------------------------------------------------
(* SpecMerge: mergeConfigs over pairs of namespaces *)

\* namespaces are generated over the first MaxKeys of KeyNames
MaxKeys == 3

KeyNames == <<K("a"), <<"b", ".", "c">>, K("d"), K("e"), K("f")>>

MergeValues == {StrV(<<"x">>), IntV(1)}

Namespaces ==
    UNION {[S -> MergeValues] : S \in SUBSET {KeyNames[i] : i \in 1..MaxKeys}}

InitMerge ==
    /\ fs = <<>>
    /\ env = NoEnv
    /\ Idle

\* one call on a pair of namespaces
DoMerge ==
    /\ call.op = "none"
    /\ \E base \in Namespaces, override \in Namespaces : MergeConfigs(base, override)

NextMerge == DoMerge

SpecMerge == InitMerge /\ [][NextMerge]_vars

\* C1: mergeConfigs(base, overlay) returns a namespace whose keys are exactly
\* those of base and overlay together; a key of overlay carries overlay's value
\* and a key of base alone carries base's value.
C1_RightBiasedUnion ==
    call.op = "mergeConfigs"
    => /\ cfg.kind = "config"
       /\ DOMAIN cfg.data = DOMAIN call.base \cup DOMAIN call.override
       /\ \A k \in DOMAIN call.override : cfg.data[k] = call.override[k]
       /\ \A k \in DOMAIN call.base \ DOMAIN call.override : cfg.data[k] = call.base[k]

\* C1 witness: a key of both with different values, a key of base alone, a key of
\* overlay alone
C1_Witness ==
    /\ call.op = "mergeConfigs"
    /\ call.base = (KeyNames[1] :> StrV(<<"x">>) @@ KeyNames[2] :> IntV(1))
    /\ call.override = (KeyNames[1] :> IntV(1) @@ KeyNames[3] :> StrV(<<"x">>))
    /\ cfg.data = (KeyNames[1] :> IntV(1) @@ KeyNames[2] :> IntV(1)
                   @@ KeyNames[3] :> StrV(<<"x">>))

----------------------------------------------------------------------------
(* SpecInterp: Load of a scalar made of literal text and placeholders *)

VarA == <<"A">>
VarB == <<"B">>

\* a segment of a scalar: literal text that opens no placeholder
Lit(text) == [kind |-> "lit", text |-> text]
\* ${name}
Plain(name) == [kind |-> "var", name |-> name, hasDef |-> FALSE, def |-> <<>>]
\* ${name:def}
WithDef(name, def) == [kind |-> "var", name |-> name, hasDef |-> TRUE, def |-> def]

Segments ==
    {Lit(t) : t \in {<<"x">>, <<"$">>, <<"}">>}}
    \cup {Plain(n) : n \in {VarA, VarB}}
    \cup {WithDef(VarA, <<>>), WithDef(VarA, <<"d">>), WithDef(VarB, <<"a", ":", "b">>)}

Templates == UNION {[1..n -> Segments] : n \in 1..MaxSegs}

\* the text of a segment as written in the document
SegText(g) ==
    IF g.kind = "lit" THEN g.text
    ELSE <<"$", "{">> \o g.name
         \o (IF g.hasDef THEN <<":">> \o g.def ELSE <<>>) \o <<"}">>

RECURSIVE Render(_)
Render(t) == IF t = <<>> THEN <<>> ELSE SegText(Head(t)) \o Render(Tail(t))

\* the process environment: each variable unset, empty, or set
Envs ==
    UNION {[S -> {<<>>, <<"v">>, <<"$", "{", "B", "}">>}] : S \in SUBSET {VarA, VarB}}

InterpPath == InDir(ConfDir, Stem \o yamlExt)
InterpKey == K("k")

\* the file system whose document maps k to the scalar written by t
InterpFs(t) ==
    ConfDir :> DirRec
    @@ InterpPath :> FileRec(4096, YamlOk(InterpKey :> StrV(Render(t))))

\* the file system of each template
TemplateFs == [t \in Templates |-> InterpFs(t)]

InitInterp ==
    /\ fs \in {TemplateFs[t] : t \in Templates}
    /\ env \in Envs
    /\ Idle

DoLoadInterp == Load(InterpPath)

NextInterp == DoLoadInterp

SpecInterp == InitInterp /\ [][NextInterp]_vars

\* what a segment resolves to by the order of the claim
Resolved(g, e) ==
    IF g.kind = "lit" THEN g.text
    ELSE IF g.name \in DOMAIN e /\ e[g.name] # <<>> THEN e[g.name]
    ELSE IF g.hasDef THEN g.def
    ELSE <<>>

RECURSIVE ResolvedAll(_, _)
ResolvedAll(t, e) ==
    IF t = <<>> THEN <<>> ELSE Resolved(Head(t), e) \o ResolvedAll(Tail(t), e)

\* C7: every placeholder ${NAME} or ${NAME:default} of a scalar resolves to the
\* value of NAME when NAME is set and non-empty, else to the default when a
\* default segment is present (even an empty one), else to the empty string;
\* Load succeeds, and the placeholders of one scalar resolve independently.
C7_Interpolation ==
    \A t \in Templates :
        (call.op = "Load" /\ fs = TemplateFs[t])
        => /\ Loaded
           /\ cfg.data = (InterpKey :> StrV(ResolvedAll(t, env)))

\* C7 witness: A is set and has a default, B is unset and has none
C7_Witness ==
    /\ call.op = "Load"
    /\ fs = InterpFs(<<WithDef(VarA, <<"d">>), Plain(VarB)>>)
    /\ env = (VarA :> <<"v">>)
    /\ Loaded
    /\ cfg.data[InterpKey] = StrV(<<"v">>)

----------------------------------------------------------------------------
(* SpecAccess: the accessors on a loaded document of one entry *)

\* the value a string coerces to
Yes(v) == [ok |-> TRUE, v |-> v]
\* the string coerces to no value of the type
No == [ok |-> FALSE]

\* values of a document, each with its text and what that text coerces to as an
\* int, a bool, a float64 and a time.Duration
Vectors ==
    <<
      [val |-> StrV(<<"4", "2">>), text |-> <<"4", "2">>,
       int |-> Yes(42), bool |-> No,
       float |-> Yes(FloatV(42, 0)), dur |-> No],
      [val |-> IntV(8080), text |-> <<"8", "0", "8", "0">>,
       int |-> Yes(8080), bool |-> No,
       float |-> Yes(FloatV(808, 1)), dur |-> No],
      [val |-> IntV(0), text |-> <<"0">>,
       int |-> Yes(0), bool |-> Yes(FALSE),
       float |-> Yes(FloatV(0, 0)), dur |-> Yes(DurV(1, 0, 0))],
      [val |-> IntV(1), text |-> <<"1">>,
       int |-> Yes(1), bool |-> Yes(TRUE),
       float |-> Yes(FloatV(1, 0)), dur |-> No],
      [val |-> IntV(-7), text |-> <<"-", "7">>,
       int |-> Yes(-7), bool |-> No,
       float |-> Yes(FloatV(-7, 0)), dur |-> No],
      [val |-> BoolV(TRUE), text |-> <<"t", "r", "u", "e">>,
       int |-> No, bool |-> Yes(TRUE),
       float |-> No, dur |-> No],
      [val |-> BoolV(FALSE), text |-> <<"f", "a", "l", "s", "e">>,
       int |-> No, bool |-> Yes(FALSE),
       float |-> No, dur |-> No],
      [val |-> StrV(<<"T">>), text |-> <<"T">>,
       int |-> No, bool |-> Yes(TRUE),
       float |-> No, dur |-> No],
      [val |-> StrV(<<"y", "e", "s">>), text |-> <<"y", "e", "s">>,
       int |-> No, bool |-> No,
       float |-> No, dur |-> No],
      [val |-> StrV(<<"a", "b", "c">>), text |-> <<"a", "b", "c">>,
       int |-> No, bool |-> No,
       float |-> No, dur |-> No],
      [val |-> StrV(<<>>), text |-> <<>>,
       int |-> No, bool |-> No,
       float |-> No, dur |-> No],
      [val |-> StrV(<<" ", "4", "2">>), text |-> <<" ", "4", "2">>,
       int |-> No, bool |-> No,
       float |-> No, dur |-> No],
      [val |-> StrV(<<"+", "5">>), text |-> <<"+", "5">>,
       int |-> Yes(5), bool |-> No,
       float |-> Yes(FloatV(5, 0)), dur |-> No],
      [val |-> FloatV(314, -2), text |-> <<"3", ".", "1", "4">>,
       int |-> No, bool |-> No,
       float |-> Yes(FloatV(314, -2)), dur |-> No],
      [val |-> StrV(<<"1", "e", "3">>), text |-> <<"1", "e", "3">>,
       int |-> No, bool |-> No,
       float |-> Yes(FloatV(1, 3)), dur |-> No],
      [val |-> StrV(<<"1", ".", "5", "0">>), text |-> <<"1", ".", "5", "0">>,
       int |-> No, bool |-> No,
       float |-> Yes(FloatV(15, -1)), dur |-> No],
      [val |-> StrV(<<"1", "h", "3", "0", "m">>), text |-> <<"1", "h", "3", "0", "m">>,
       int |-> No, bool |-> No,
       float |-> No, dur |-> Yes(DurV(1, 5400, 0))],
      [val |-> StrV(<<"1", ".", "5", "s">>), text |-> <<"1", ".", "5", "s">>,
       int |-> No, bool |-> No,
       float |-> No, dur |-> Yes(DurV(1, 1, 500000000))],
      [val |-> StrV(<<"5", "0", "0", "m", "s">>), text |-> <<"5", "0", "0", "m", "s">>,
       int |-> No, bool |-> No,
       float |-> No, dur |-> Yes(DurV(1, 0, 500000000))],
      [val |-> StrV(<<"-", "2", "m">>), text |-> <<"-", "2", "m">>,
       int |-> No, bool |-> No,
       float |-> No, dur |-> Yes(DurV(-1, 120, 0))],
      [val |-> StrV(<<"5", "x">>), text |-> <<"5", "x">>,
       int |-> No, bool |-> No,
       float |-> No, dur |-> No],
      [val |-> NullV, text |-> <<"<", "n", "i", "l", ">">>,
       int |-> No, bool |-> No,
       float |-> No, dur |-> No],
      [val |-> SeqV(<<StrV(<<"a">>), IntV(1)>>), text |-> <<"[", "a", " ", "1", "]">>,
       int |-> No, bool |-> No,
       float |-> No, dur |-> No]
    >>

AccessPath == InDir(ConfDir, Stem \o yamlExt)
PresentKey == K("k")
AbsentKey == K("z")

\* the file system whose document maps k to the value of vector i
AccessFs(i) ==
    ConfDir :> DirRec
    @@ AccessPath :> FileRec(4096, YamlOk(PresentKey :> Vectors[i].val))

AccessKeys == {PresentKey, AbsentKey}
StringDefaults == {<<"f">>}
IntDefaults == {42}
BoolDefaults == {TRUE, FALSE}

InitAccess ==
    /\ fs \in {AccessFs(i) : i \in 1..Len(Vectors)}
    /\ env = NoEnv
    /\ Idle

DoLoadAccess == Load(AccessPath)
DoGetString == \E key \in AccessKeys : CallGetString(key)
DoGetInt == \E key \in AccessKeys : CallGetInt(key)
DoGetBool == \E key \in AccessKeys : CallGetBool(key)
DoGetFloat64 == \E key \in AccessKeys : CallGetFloat64(key)
DoGetDuration == \E key \in AccessKeys : CallGetDuration(key)
DoGetStringWithDefault ==
    \E key \in AccessKeys, def \in StringDefaults : CallGetStringWithDefault(key, def)
DoGetIntWithDefault ==
    \E key \in AccessKeys, def \in IntDefaults : CallGetIntWithDefault(key, def)
DoGetBoolWithDefault ==
    \E key \in AccessKeys, def \in BoolDefaults : CallGetBoolWithDefault(key, def)

NextAccess ==
    \/ DoLoadAccess
    \/ DoGetString
    \/ DoGetInt
    \/ DoGetBool
    \/ DoGetFloat64
    \/ DoGetDuration
    \/ DoGetStringWithDefault
    \/ DoGetIntWithDefault
    \/ DoGetBoolWithDefault

SpecAccess == InitAccess /\ [][NextAccess]_vars

\* what the value of vector i coerces to for a getter
Coerced(i, op) ==
    CASE op \in {"GetString", "GetStringWithDefault"} -> Yes(Vectors[i].text)
      [] op \in {"GetInt", "GetIntWithDefault"} -> Vectors[i].int
      [] op \in {"GetBool", "GetBoolWithDefault"} -> Vectors[i].bool
      [] op = "GetFloat64" -> Vectors[i].float
      [] op = "GetDuration" -> Vectors[i].dur

\* the zero value of a getter's type
ZeroOf(op) ==
    CASE op \in {"GetString", "GetStringWithDefault"} -> <<>>
      [] op \in {"GetInt", "GetIntWithDefault"} -> 0
      [] op \in {"GetBool", "GetBoolWithDefault"} -> FALSE
      [] op = "GetFloat64" -> FloatV(0, 0)
      [] op = "GetDuration" -> DurV(1, 0, 0)

\* C9: on a loaded namespace GetString, GetInt, GetBool, GetFloat64 and
\* GetDuration return the zero value of their type for an absent key and for a
\* value that cannot be coerced, and the coerced value otherwise.
C9_Getters ==
    \A i \in 1..Len(Vectors) :
        ( /\ fs = AccessFs(i)
          /\ call.op \in {"GetString", "GetInt", "GetBool", "GetFloat64", "GetDuration"} )
        => /\ ret.kind = "value"
           /\ ret.v = IF call.key = PresentKey /\ Coerced(i, call.op).ok
                      THEN Coerced(i, call.op).v
                      ELSE ZeroOf(call.op)

\* C9 witness: GetInt of a present value that is no integer returned 0
C9_Witness ==
    /\ call.op = "GetInt"
    /\ call.key = PresentKey
    /\ cfg.data[PresentKey] = StrV(<<"a", "b", "c">>)
    /\ ret = [kind |-> "value", v |-> 0]

\* C10 as claimed: GetStringWithDefault, GetIntWithDefault and GetBoolWithDefault
\* return the fallback whenever the key is absent or its value cannot be coerced
C10_FallbackOnFailure ==
    \A i \in 1..Len(Vectors) :
        ( /\ fs = AccessFs(i)
          /\ call.op \in {"GetStringWithDefault", "GetIntWithDefault",
                          "GetBoolWithDefault"}
          /\ (call.key = AbsentKey \/ ~Coerced(i, call.op).ok) )
        => ret.v = call.def

----------------------------------------------------------------------------
(* SpecConc: goroutines calling into the package on configs kept on a heap *)

\* the goroutines that call concurrently
NumGoroutines == 2

Goroutines == 1..NumGoroutines

\* &config{data: data}: the heap with the new object, whose address is its index
NewConfig(h, data) == Append(h, [data |-> data, readers |-> 0])

\* c.mu.RLock() and c.mu.RUnlock() on the config at address a
RLock(h, a) == [h EXCEPT ![a].readers = @ + 1]
RUnlock(h, a) == [h EXCEPT ![a].readers = @ - 1]

\* value, exists := c.data[key] that stores the zero value under a missing key
mapIndexInserts(h, a, key) ==
    [value |-> Get(h[a].data, key).value,
     exists |-> Get(h[a].data, key).exists,
     heap |-> IF key \in DOMAIN h[a].data THEN h
              ELSE [h EXCEPT ![a].data = (key :> NullV) @@ @]]

\* value, exists := c.data[key] on the config at address a: a read of the map
mapIndex(h, a, key) ==
    [value |-> Get(h[a].data, key).value,
     exists |-> Get(h[a].data, key).exists,
     heap |-> h]

\* mergeConfigs that writes the override into the base config and returns it
mergeIntoBase(h, base, override) ==
    [heap |-> [h EXCEPT ![base].data = mergeConfigs(h[base], h[override]).data],
     addr |-> base]

\* mergeConfigs on the heap: a new config that holds the merged entries
mergeConfigsAt(h, base, override) ==
    [heap |-> NewConfig(h, mergeConfigs(h[base], h[override]).data),
     addr |-> Len(h) + 1]

RECURSIVE Orders(_)
\* the orders in which a range over a map with these keys can visit them
Orders(S) ==
    IF S = {} THEN {<<>>}
    ELSE UNION {{<<k>> \o o : o \in Orders(S \ {k})} : k \in S}

GoIdle == [pc |-> "idle"]

AccessorOps ==
    {"Get", "GetString", "GetInt", "GetBool", "GetFloat64", "GetDuration",
     "GetStringWithDefault", "GetIntWithDefault", "GetBoolWithDefault", "Keys"}

\* the map with what one c.Get(key) returned
Snapshot(key, got) == IF got.exists THEN key :> got.value ELSE <<>>

\* GetIntWithDefault and GetBoolWithDefault call c.Get again through GetInt / GetBool
\* when the first c.Get found a value with a non-empty text
CallsGetAgain(c) ==
    /\ c.op \in {"GetIntWithDefault", "GetBoolWithDefault"}
    /\ Len(c.got) = 1
    /\ c.got[1].exists
    /\ Sprint(c.got[1].value) # <<>>

\* what the accessor returns from what its c.Get calls returned
Returned(c) ==
    LET first == Snapshot(c.key, c.got[1])
        last == Snapshot(c.key, c.got[Len(c.got)])
    IN  CASE c.op = "Get" -> [value |-> c.got[1].value, exists |-> c.got[1].exists]
          [] c.op = "GetString" -> GetString(first, c.key)
          [] c.op = "GetInt" -> GetInt(first, c.key)
          [] c.op = "GetBool" -> GetBool(first, c.key)
          [] c.op = "GetFloat64" -> GetFloat64(first, c.key)
          [] c.op = "GetDuration" -> GetDuration(first, c.key)
          [] c.op = "GetStringWithDefault" -> GetStringWithDefault(first, c.key, c.def)
          [] c.op = "GetIntWithDefault" ->
                IF Len(c.got) = 2 THEN GetInt(last, c.key) ELSE c.def
          [] c.op = "GetBoolWithDefault" ->
                IF Len(c.got) = 2 THEN GetBool(last, c.key) ELSE c.def

\* cfg, err := Load(filePath) by the main goroutine, before the others start
MainLoad(filePath) ==
    /\ heap = <<>>
    /\ \E r \in loadFromFile(fs, env, filePath) :
        /\ r.err = NoErr
        /\ heap' = NewConfig(heap, r.cfg.data)
        /\ cfg' = r.cfg
        /\ err' = r.err
        /\ reads' = r.reads
        /\ call' = [op |-> "Load", path |-> filePath, profile |-> <<>>]
    /\ UNCHANGED <<fs, env, ret, target, gor>>

\* goroutine g calls an accessor on the config at address a
GoCall(g, a, op, key, def) ==
    /\ gor[g].pc = "idle"
    /\ a \in DOMAIN heap
    /\ gor' = [gor EXCEPT ![g] = [pc |-> "rlock", op |-> op, key |-> key, def |-> def,
                                  on |-> a, got |-> <<>>]]
    /\ UNCHANGED <<fs, env, call, cfg, err, ret, reads, target, heap>>

\* c.mu.RLock(): no writer ever holds the lock, so it never blocks
GoRLock(g) ==
    /\ gor[g].pc = "rlock"
    /\ heap' = RLock(heap, gor[g].on)
    /\ gor' = [gor EXCEPT ![g].pc = "read"]
    /\ UNCHANGED <<fs, env, call, cfg, err, ret, reads, target>>

\* value, exists := c.data[key]
GoRead(g) ==
    /\ gor[g].pc = "read"
    /\ gor[g].op # "Keys"
    /\ LET r == mapIndex(heap, gor[g].on, gor[g].key)
       IN  /\ heap' = r.heap
           /\ gor' = [gor EXCEPT ![g].pc = "runlock",
                                 ![g].got = Append(@, [value |-> r.value,
                                                       exists |-> r.exists])]
    /\ UNCHANGED <<fs, env, call, cfg, err, ret, reads, target>>

\* for key := range c.data { keys = append(keys, key) }
GoRange(g) ==
    /\ gor[g].pc = "read"
    /\ gor[g].op = "Keys"
    /\ \E o \in Orders(DOMAIN heap[gor[g].on].data) :
        gor' = [gor EXCEPT ![g].pc = "runlock", ![g].got = o]
    /\ UNCHANGED <<fs, env, call, cfg, err, ret, reads, target, heap>>

\* the deferred c.mu.RUnlock(), then the return of the accessor or its next c.Get
GoRUnlock(g) ==
    /\ gor[g].pc = "runlock"
    /\ heap' = RUnlock(heap, gor[g].on)
    /\ gor' = [gor EXCEPT ![g] =
                IF CallsGetAgain(gor[g]) THEN [gor[g] EXCEPT !.pc = "rlock"]
                ELSE [pc |-> "done", op |-> gor[g].op, key |-> gor[g].key,
                      def |-> gor[g].def, on |-> gor[g].on,
                      result |-> IF gor[g].op = "Keys" THEN gor[g].got
                                 ELSE Returned(gor[g])]]
    /\ UNCHANGED <<fs, env, call, cfg, err, ret, reads, target>>

\* goroutine g runs Load(filePath): loadFromFile builds a config of its own
GoLoad(g, filePath) ==
    /\ gor[g].pc = "idle"
    /\ heap # <<>>
    /\ \E r \in loadFromFile(fs, env, filePath) :
        /\ r.err = NoErr
        /\ heap' = NewConfig(heap, r.cfg.data)
        /\ gor' = [gor EXCEPT ![g] = [pc |-> "done", op |-> "Load",
                                      result |-> Len(heap) + 1]]
    /\ UNCHANGED <<fs, env, call, cfg, err, ret, reads, target>>

\* goroutine g starts LoadWithProfile(filePath, profile): cfg, err := loadFromFile(filePath)
GoLoadBase(g, filePath, profile) ==
    /\ gor[g].pc = "idle"
    /\ heap # <<>>
    /\ profile # <<>>
    /\ fileExists(fs, generateProfilePath(fs, filePath, profile))
    /\ \E r \in loadFromFile(fs, env, filePath) :
        /\ r.err = NoErr
        /\ heap' = NewConfig(heap, r.cfg.data)
        /\ gor' = [gor EXCEPT ![g] = [pc |-> "profile", op |-> "LoadWithProfile",
                                      path |-> filePath, profile |-> profile,
                                      base |-> Len(heap) + 1]]
    /\ UNCHANGED <<fs, env, call, cfg, err, ret, reads, target>>

\* profileCfg, err := loadFromFile(profilePath)
GoLoadProfile(g) ==
    /\ gor[g].pc = "profile"
    /\ \E r \in loadFromFile(fs, env,
                             generateProfilePath(fs, gor[g].path, gor[g].profile)) :
        /\ r.err = NoErr
        /\ heap' = NewConfig(heap, r.cfg.data)
        /\ gor' = [gor EXCEPT ![g] = [pc |-> "merge", op |-> "LoadWithProfile",
                                      base |-> gor[g].base, override |-> Len(heap) + 1]]
    /\ UNCHANGED <<fs, env, call, cfg, err, ret, reads, target>>

\* cfg = mergeConfigs(cfg, profileCfg); return cfg, nil
GoMerge(g) ==
    /\ gor[g].pc = "merge"
    /\ LET m == mergeConfigsAt(heap, gor[g].base, gor[g].override)
       IN  /\ heap' = m.heap
           /\ gor' = [gor EXCEPT ![g] = [pc |-> "done", op |-> "LoadWithProfile",
                                         base |-> gor[g].base,
                                         override |-> gor[g].override,
                                         result |-> m.addr]]
    /\ UNCHANGED <<fs, env, call, cfg, err, ret, reads, target>>

ConcPath == InDir(ConfDir, Stem \o yamlExt)
ConcKey == <<"s", ".", "p">>

\* the calls the goroutines make: every accessor on a key of the document, and
\* some on a missing key
ConcCalls ==
    {<<op, ConcKey>> : op \in AccessorOps}
    \cup {<<op, AbsentKey>> : op \in {"Get", "GetString", "GetIntWithDefault"}}

\* the default a caller passes to a WithDefault accessor
DefaultOf(op) ==
    CASE op = "GetStringWithDefault" -> <<"f">>
      [] op = "GetIntWithDefault" -> 42
      [] op = "GetBoolWithDefault" -> TRUE
      [] OTHER -> NoRet

InitConc ==
    /\ fs = FsOf(ConfDir, yamlExt, GoodBase, GoodOverlay, Absent)
    /\ env = NoEnv
    /\ call = [op |-> "none"]
    /\ cfg = NilConfig
    /\ err = NoErr
    /\ ret = NoRet
    /\ reads = {}
    /\ target = NoTarget
    /\ heap = <<>>
    /\ gor = [g \in Goroutines |-> GoIdle]

DoMainLoad == MainLoad(ConcPath)
DoGoCall ==
    \E g \in Goroutines, c \in ConcCalls : GoCall(g, 1, c[1], c[2], DefaultOf(c[1]))
DoGoRLock == \E g \in Goroutines : GoRLock(g)
DoGoRead == \E g \in Goroutines : GoRead(g)
DoGoRange == \E g \in Goroutines : GoRange(g)
DoGoRUnlock == \E g \in Goroutines : GoRUnlock(g)
DoGoLoad == \E g \in Goroutines : GoLoad(g, ConcPath)
DoGoLoadBase == \E g \in Goroutines : GoLoadBase(g, ConcPath, DevProfile)
DoGoLoadProfile == \E g \in Goroutines : GoLoadProfile(g)
DoGoMerge == \E g \in Goroutines : GoMerge(g)

NextConc ==
    \/ DoMainLoad
    \/ DoGoCall
    \/ DoGoRLock
    \/ DoGoRead
    \/ DoGoRange
    \/ DoGoRUnlock
    \/ DoGoLoad
    \/ DoGoLoadBase
    \/ DoGoLoadProfile
    \/ DoGoMerge

SpecConc == InitConc /\ [][NextConc]_vars

\* the results an accessor call can return when it runs alone on this namespace
AloneResults(op, data, key, def) ==
    CASE op = "Get" -> {Get(data, key)}
      [] op = "GetString" -> {GetString(data, key)}
      [] op = "GetInt" -> {GetInt(data, key)}
      [] op = "GetBool" -> {GetBool(data, key)}
      [] op = "GetFloat64" -> {GetFloat64(data, key)}
      [] op = "GetDuration" -> {GetDuration(data, key)}
      [] op = "GetStringWithDefault" -> {GetStringWithDefault(data, key, def)}
      [] op = "GetIntWithDefault" -> {GetIntWithDefault(data, key, def)}
      [] op = "GetBoolWithDefault" -> {GetBoolWithDefault(data, key, def)}
      [] op = "Keys" -> Orders(DOMAIN data)

\* C11: once Load has returned a Config, no accessor call modifies its namespace,
\* and under every interleaving of accessor calls of concurrent goroutines each
\* call returns a result it can return when it runs alone.
C11_ConcurrentReads ==
    heap # <<>>
    => /\ heap[1].data = cfg.data
       /\ \A g \in Goroutines :
            (gor[g].pc = "done" /\ gor[g].op \in AccessorOps)
            => gor[g].result
                 \in AloneResults(gor[g].op, cfg.data, gor[g].key, gor[g].def)

\* C11 witness: one goroutine has returned from GetIntWithDefault while another
\* holds the read lock of the same config inside Get of a missing key
C11_Witness ==
    /\ heap # <<>>
    /\ gor[1].pc = "done"
    /\ gor[1].op = "GetIntWithDefault"
    /\ gor[1].result = 8080
    /\ gor[2].pc = "runlock"
    /\ gor[2].op = "Get"
    /\ gor[2].key = AbsentKey
    /\ heap[1].readers = 1

\* C12: configs of different Load / LoadWithProfile calls share no state: no call
\* changes the namespace of a config that exists already, and the merge of
\* LoadWithProfile builds a new config and leaves base and overlay as they were.
C12_NoSharedState ==
    [][\A a \in DOMAIN heap : a \in DOMAIN heap' /\ heap'[a].data = heap[a].data]_vars

\* C12 witness: a LoadWithProfile has returned a merged config next to its base,
\* its overlay and the config of the first Load, each with its own entries
C12_Witness ==
    \E g \in Goroutines :
        /\ gor[g].pc = "done"
        /\ gor[g].op = "LoadWithProfile"
        /\ gor[g].result \notin {1, gor[g].base, gor[g].override}
        /\ heap[gor[g].result].data[<<"s", ".", "p">>] = IntV(3000)
        /\ heap[gor[g].base].data[<<"s", ".", "p">>] = IntV(8080)
        /\ heap[gor[g].base].data = heap[1].data
        /\ K("g") \notin DOMAIN heap[gor[g].base].data
        /\ heap[gor[g].override].data[<<"s", ".", "p">>] = IntV(3000)

----------------------------------------------------------------------------
(* reflect: the types and values LoadInto binds *)

UpperCase == <<"A", "B", "C", "D", "E", "F", "G", "H", "I", "J", "K", "L", "M", "N", "O", "P", "Q", "R", "S", "T", "U", "V", "W", "X", "Y", "Z">>
LowerCase == <<"a", "b", "c", "d", "e", "f", "g", "h", "i", "j", "k", "l", "m", "n", "o", "p", "q", "r", "s", "t", "u", "v", "w", "x", "y", "z">>

IsUpper(c) == \E i \in 1..Len(UpperCase) : UpperCase[i] = c

\* strings.ToLower
ToLower(str) ==
    [i \in 1..Len(str) |->
        IF IsUpper(str[i])
        THEN LowerCase[CHOOSE j \in 1..Len(UpperCase) : UpperCase[j] = str[i]]
        ELSE str[i]]

\* a type of kind string, int, uint, float64, bool, duration (time.Duration) or slice
ScalarT(kind) == [kind |-> kind]
\* *elem
PtrT(elem) == [kind |-> "ptr", elem |-> elem]
\* type name struct { fields }
StructT(name, fields) == [kind |-> "struct", name |-> name, fields |-> fields]
\* a struct field: its name, its konfig and default tags ("" when absent), its type
Field(name, konfig, default, type) ==
    [name |-> name, konfig |-> konfig, default |-> default, type |-> type]

\* a nil pointer held by a pointer-typed field
NilPtr == [kind |-> "nilptr"]

\* the integer kinds narrower than 64 bits of the model, and their widths
SignedNarrow == {"int8", "int16"}
UnsignedNarrow == {"uint8", "uint16"}
Bits(kind) == IF kind \in {"int8", "uint8"} THEN 8 ELSE 16

RECURSIVE Pow2(_)
Pow2(n) == IF n <= 0 THEN 1 ELSE 2 * Pow2(n - 1)

\* reflect.Value.SetInt(x) on a field of a narrow kind: *(*intN)(v.ptr) = intN(x),
\* the low N bits of x read as a signed number
SetInt(kind, x) ==
    ((x + Pow2(Bits(kind) - 1)) % Pow2(Bits(kind))) - Pow2(Bits(kind) - 1)

\* reflect.Value.SetUint(x) on a field of a narrow kind: the low N bits of x
SetUint(kind, x) == x % Pow2(Bits(kind))

RECURSIVE Zero(_)
\* the zero value of a type; a struct value is the sequence of its field values
Zero(t) ==
    CASE t.kind = "string" -> <<>>
      [] t.kind \in {"int", "uint"} \cup SignedNarrow \cup UnsignedNarrow -> 0
      [] t.kind = "float64" -> FloatV(0, 0)
      [] t.kind = "bool" -> FALSE
      [] t.kind = "duration" -> DurV(1, 0, 0)
      [] t.kind = "slice" -> <<>>
      [] t.kind = "ptr" -> NilPtr
      [] t.kind = "struct" -> [i \in 1..Len(t.fields) |-> Zero(t.fields[i].type)]

\* reflect.Value.CanSet of a field of an addressable struct: the field is exported
CanSet(field) == field.name # <<>> /\ IsUpper(field.name[1])

\* the untyped nil passed as target
NilTarget == [kind |-> "nil"]
\* a value passed as target that is no pointer
ValueTarget(t, v) == [kind |-> "value", type |-> t, v |-> v]
\* a pointer to a variable of type t that holds v
PtrTarget(t, v) == [kind |-> "ptr", type |-> t, v |-> v]
\* a nil pointer of type *t
NilPtrTarget(t) == [kind |-> "nilptr", type |-> t]

----------------------------------------------------------------------------
(* populateStruct, populateStructFields and setFieldValue *)

\* the digits of 1 << 64
TwoTo64Text ==
    <<"1", "8", "4", "4", "6", "7", "4", "4", "0", "7",
      "3", "7", "0", "9", "5", "5", "1", "6", "1", "6">>

\* strconv.ParseInt(s, 10, 64): [ok, v]
ParseInt(s) == Atoi(s)

\* strconv.ParseUint(s, 10, 64): [ok, v]
ParseUint(s) ==
    LET z == StripZeros(s)
    IN  IF AllDigits(s) /\ (Len(z) < 20 \/ (Len(z) = 20 /\ StrLess(z, TwoTo64Text)))
        THEN [ok |-> TRUE, v |-> NatVal(s)]
        ELSE [ok |-> FALSE, v |-> 0]

\* fmt.Errorf("cannot convert '%s' to <what>: %w", strValue, err)
ConvertErr(strValue, what) ==
    [type |-> "error", message |-> <<"cannot convert", strValue, what>>]

\* fmt.Errorf("unsupported field type: %s", fieldValue.Kind())
UnsupportedErr(kind) == [type |-> "error", message |-> <<"unsupported field type", kind>>]

\* a source text that falls back to the default tag when the value's text is empty
sourceTextEmptyIsAbsent(data, configKey, defaultValue) ==
    IF Get(data, configKey).exists /\ Get(data, configKey).value.kind # "null"
       /\ Sprint(Get(data, configKey).value) # <<>>
    THEN Sprint(Get(data, configKey).value)
    ELSE defaultValue

\* setFieldValue, "Get value from config or use default": strValue
sourceText(data, configKey, defaultValue) ==
    IF Get(data, configKey).exists /\ Get(data, configKey).value.kind # "null"
    THEN Sprint(Get(data, configKey).value)
    ELSE defaultValue

\* setFieldValue, "Set value based on field type" for the kinds that are no struct:
\* the value the field holds afterwards and the error returned
convertInto(fieldValue, kind, strValue) ==
    LET set(parsed, what) ==
            IF parsed.ok THEN [v |-> parsed.v, err |-> NoErr]
            ELSE [v |-> fieldValue, err |-> ConvertErr(strValue, what)]
        narrow(parsed) ==
            [ok |-> parsed.ok,
             v |-> IF kind \in SignedNarrow THEN SetInt(kind, parsed.v)
                   ELSE SetUint(kind, parsed.v)]
    IN  CASE kind = "string" -> [v |-> strValue, err |-> NoErr]
          [] kind = "duration" -> set(ParseDuration(strValue), "duration")
          [] kind = "int" -> set(ParseInt(strValue), "int")
          [] kind \in SignedNarrow -> set(narrow(ParseInt(strValue)), "int")
          [] kind = "uint" -> set(ParseUint(strValue), "uint")
          [] kind \in UnsignedNarrow -> set(narrow(ParseUint(strValue)), "uint")
          [] kind = "float64" -> set(ParseFloat(strValue), "float")
          [] kind = "bool" -> set(ParseBool(strValue), "bool")
          [] OTHER -> [v |-> fieldValue, err |-> UnsupportedErr(kind)]

\* a key path that drops the prefix of the enclosing structs
configKeyNoPrefix(prefix, tag) == tag

\* populateStructFields, "Build full config key path": configKey
configKeyOf(prefix, tag) == IF prefix # <<>> THEN prefix \o <<".">> \o tag ELSE tag

\* populateStructFields, the prefix of a nested struct without a konfig tag
nestedPrefixOf(prefix, name) ==
    (IF prefix # <<>> THEN prefix \o <<".">> ELSE <<>>) \o ToLower(name)

RECURSIVE populateStructFieldsFrom(_, _, _, _, _)

\* setFieldValue(cfg, fieldValue, configKey, defaultValue): the value the field
\* holds afterwards and the error returned
setFieldValue(data, fieldValue, type, configKey, defaultValue) ==
    IF sourceText(data, configKey, defaultValue) = <<>>
    THEN [v |-> fieldValue, err |-> NoErr]
    ELSE IF type.kind = "struct"
    THEN populateStructFieldsFrom(data, fieldValue, type, configKey, 1)
    ELSE convertInto(fieldValue, type.kind,
                     sourceText(data, configKey, defaultValue))

\* a field without konfig tag that is bound under its lower-cased name
writesUntagged(data, fieldValue, field, t, prefix) ==
    IF field.type.kind = "struct"
    THEN populateStructFieldsFrom(data, fieldValue, field.type,
                                  nestedPrefixOf(prefix, field.name), 1)
    ELSE setFieldValue(data, fieldValue, field.type,
                       nestedPrefixOf(prefix, field.name), field.default)

\* populateStructFields, a field whose konfig tag is "": a nested struct is walked
\* under the prefix extended by its lower-cased name, any other field is skipped
untaggedField(data, fieldValue, field, t, prefix) ==
    IF field.type.kind = "struct"
    THEN populateStructFieldsFrom(data, fieldValue, field.type,
                                  nestedPrefixOf(prefix, field.name), 1)
    ELSE [v |-> fieldValue, err |-> NoErr]

\* populateStructFields, "Set scalar field value": an error of setFieldValue is
\* wrapped as a type_error that names the struct type, the field and the key
wrapSetError(t, field, configKey, set) ==
    IF set.err # NoErr
    THEN [v |-> set.v,
          err |-> ConfigError("type_error", t.name \o <<".">> \o field.name,
                              <<"failed to set field from config key", configKey>>,
                              set.err)]
    ELSE set

\* populateStructFields, a field with a konfig tag: a nested struct is walked with
\* the key as prefix, any other field is set by setFieldValue
taggedField(data, fieldValue, field, t, configKey) ==
    IF field.type.kind = "struct"
    THEN populateStructFieldsFrom(data, fieldValue, field.type, configKey, 1)
    ELSE wrapSetError(t, field, configKey,
                      setFieldValue(data, fieldValue, field.type, configKey,
                                    field.default))

\* the body of the loop of populateStructFields for one field: the value the
\* field holds afterwards and the error the body returns with
populateField(data, fieldValue, field, t, prefix) ==
    IF ~CanSet(field) THEN [v |-> fieldValue, err |-> NoErr]
    ELSE IF field.konfig = <<>> THEN untaggedField(data, fieldValue, field, t, prefix)
    ELSE taggedField(data, fieldValue, field, t, configKeyOf(prefix, field.konfig))

\* a loop that goes on to the later fields after a field has failed and returns
\* the first error
continueNoStop(data, v, t, prefix, i, step) ==
    [v |-> populateStructFieldsFrom(data, [v EXCEPT ![i] = step.v], t, prefix, i + 1).v,
     err |-> IF step.err # NoErr THEN step.err
             ELSE populateStructFieldsFrom(data, [v EXCEPT ![i] = step.v], t, prefix,
                                           i + 1).err]

\* the loop of populateStructFields after the body has run for field i: return the
\* error, or go on with field i + 1
continueLoop(data, v, t, prefix, i, step) ==
    IF step.err # NoErr THEN [v |-> [v EXCEPT ![i] = step.v], err |-> step.err]
    ELSE populateStructFieldsFrom(data, [v EXCEPT ![i] = step.v], t, prefix, i + 1)

\* the loop of populateStructFields(cfg, v, t, prefix) from field i on: the struct
\* value afterwards and the error returned
populateStructFieldsFrom(data, v, t, prefix, i) ==
    IF i > Len(t.fields) THEN [v |-> v, err |-> NoErr]
    ELSE continueLoop(data, v, t, prefix, i,
                      populateField(data, v[i], t.fields[i], t, prefix))

\* populateStructFields(cfg, v, t, prefix)
populateStructFields(data, v, t, prefix) == populateStructFieldsFrom(data, v, t, prefix, 1)

\* populateStruct that takes every target for a pointer to a struct
populateStructUnchecked(c, tgt) ==
    IF tgt.kind = "ptr" /\ tgt.type.kind = "struct"
    THEN LET r == populateStructFields(c.data, tgt.v, tgt.type, <<>>)
         IN  [target |-> [tgt EXCEPT !.v = r.v], err |-> r.err]
    ELSE [target |-> tgt, err |-> NoErr]

\* populateStruct(cfg, target): the target afterwards and the error returned
populateStruct(c, tgt) ==
    IF tgt.kind = "nil"
    THEN [target |-> tgt,
          err |-> ConfigError("validation_error", <<"s", "t", "r", "u", "c", "t">>,
                              "target struct cannot be nil", NoErr)]
    ELSE IF tgt.kind \notin {"ptr", "nilptr"}
    THEN [target |-> tgt,
          err |-> ConfigError("validation_error", <<"s", "t", "r", "u", "c", "t">>,
                              "target must be a pointer to struct", NoErr)]
    ELSE IF tgt.kind = "nilptr" \/ tgt.type.kind # "struct"
    THEN [target |-> tgt,
          err |-> ConfigError("validation_error", <<"s", "t", "r", "u", "c", "t">>,
                              "target must be a pointer to struct", NoErr)]
    ELSE LET r == populateStructFields(c.data, tgt.v, tgt.type, <<>>)
         IN  [target |-> [tgt EXCEPT !.v = r.v], err |-> r.err]

\* err := LoadInto(filePath, target)
LoadInto(filePath, tgt) ==
    \E r \in LoadResults(fs, env, filePath) :
        LET b == IF r.err # NoErr THEN [target |-> tgt, err |-> r.err]
                 ELSE populateStruct(r.cfg, tgt)
        IN  /\ call' = [op |-> "LoadInto", path |-> filePath, target |-> tgt]
            /\ cfg' = r.cfg
            /\ err' = b.err
            /\ target' = b.target
            /\ reads' = r.reads
            /\ ret' = NoRet
            /\ UNCHANGED <<fs, env, heap, gor>>

----------------------------------------------------------------------------
(* SpecBind: LoadInto over documents, struct types and targets *)

\* a non-nil pointer held by a pointer-typed field, to a variable that holds v
PtrTo(v) == [kind |-> "ptrto", v |-> v]

StringT == ScalarT("string")
IntT == ScalarT("int")

\* type Srv struct { Host string `konfig:"h" default:"lh"`; Port int `konfig:"p"` }
SrvT ==
    StructT(<<"S", "r", "v">>,
            <<Field(<<"H", "o", "s", "t">>, K("h"), <<"l", "h">>, StringT),
              Field(<<"P", "o", "r", "t">>, K("p"), <<>>, IntT)>>)

\* type In struct { Size uint `konfig:"u" default:"9"`; Tag string `konfig:"n"` }
InT ==
    StructT(<<"I", "n">>,
            <<Field(<<"S", "i", "z", "e">>, K("u"), <<"9">>, ScalarT("uint")),
              Field(<<"T", "a", "g">>, K("n"), <<>>, StringT)>>)

\* type Db struct { Name string `konfig:"n" default:"dn"`; In In; Pool In `konfig:"o"` }
DbT ==
    StructT(<<"D", "b">>,
            <<Field(<<"N", "a", "m", "e">>, K("n"), <<"d", "n">>, StringT),
              Field(<<"I", "n">>, <<>>, <<>>, InT),
              Field(<<"P", "o", "o", "l">>, K("o"), <<>>, InT)>>)

\* type App struct {
\*     Name   string        `konfig:"n" default:"dn"`
\*     Port   int           `konfig:"p" default:"7"`
\*     Skip   string        `default:"x"`
\*     Blank  int           `konfig:"" default:"3"`
\*     hidden string        `konfig:"n"`
\*     Debug  bool          `konfig:"d"`
\*     Wait   time.Duration `konfig:"w" default:"5s"`
\*     Rate   float64       `konfig:"r"`
\*     Server Srv           `konfig:"s"`
\*     Db     Db
\*     Last   string        `konfig:"e" default:"de"`
\* }
AppT ==
    StructT(<<"A", "p", "p">>,
            <<Field(<<"N", "a", "m", "e">>, K("n"), <<"d", "n">>, StringT),
              Field(<<"P", "o", "r", "t">>, K("p"), <<"7">>, IntT),
              Field(<<"S", "k", "i", "p">>, <<>>, <<"x">>, StringT),
              Field(<<"B", "l", "a", "n", "k">>, <<>>, <<"3">>, IntT),
              Field(<<"h", "i", "d", "d", "e", "n">>, K("n"), <<>>, StringT),
              Field(<<"D", "e", "b", "u", "g">>, K("d"), <<>>, ScalarT("bool")),
              Field(<<"W", "a", "i", "t">>, K("w"), <<"5", "s">>, ScalarT("duration")),
              Field(<<"R", "a", "t", "e">>, K("r"), <<>>, ScalarT("float64")),
              Field(<<"S", "e", "r", "v", "e", "r">>, K("s"), <<>>, SrvT),
              Field(<<"D", "b">>, <<>>, <<>>, DbT),
              Field(<<"L", "a", "s", "t">>, K("e"), <<"d", "e">>, StringT)>>)

\* type Opt struct {
\*     A     string  `konfig:"n"`
\*     Plain *string
\*     Maybe *string `konfig:"m"`
\*     B     int     `konfig:"p" default:"1"`
\* }
OptT ==
    StructT(<<"O", "p", "t">>,
            <<Field(<<"A">>, K("n"), <<>>, StringT),
              Field(<<"P", "l", "a", "i", "n">>, <<>>, <<>>, PtrT(StringT)),
              Field(<<"M", "a", "y", "b", "e">>, K("m"), <<>>, PtrT(StringT)),
              Field(<<"B">>, K("p"), <<"1">>, IntT)>>)

\* type Ptr struct {
\*     A          string  `konfig:"n"`
\*     PointerVal *string `konfig:"q" default:"z"`
\*     B          string  `konfig:"e" default:"de"`
\* }
PtrFieldT ==
    StructT(<<"P", "t", "r">>,
            <<Field(<<"A">>, K("n"), <<>>, StringT),
              Field(<<"P", "o", "i", "n", "t", "e", "r", "V", "a", "l">>, K("q"), <<"z">>,
                    PtrT(StringT)),
              Field(<<"B">>, K("e"), <<"d", "e">>, StringT)>>)

StructTypes == {AppT, OptT, PtrFieldT, SrvT}

RECURSIVE Filled(_)
\* a value of type t none of whose fields holds its zero value
Filled(t) ==
    CASE t.kind = "string" -> <<"o">>
      [] t.kind \in {"int", "uint"} \cup SignedNarrow \cup UnsignedNarrow -> 1
      [] t.kind = "float64" -> FloatV(25, -1)
      [] t.kind = "bool" -> TRUE
      [] t.kind = "duration" -> DurV(1, 1, 0)
      [] t.kind = "slice" -> <<"o">>
      [] t.kind = "ptr" -> PtrTo(Filled(t.elem))
      [] t.kind = "struct" -> [i \in 1..Len(t.fields) |-> Filled(t.fields[i].type)]

\* the targets a caller passes: &T{} and &T{...} for the struct types, and the
\* targets that are no pointer to a struct
Targets ==
    {PtrTarget(t, Zero(t)) : t \in StructTypes}
    \cup {PtrTarget(t, Filled(t)) : t \in StructTypes}
    \cup {NilTarget, ValueTarget(SrvT, Filled(SrvT)), ValueTarget(StringT, <<"o">>),
          PtrTarget(StringT, <<"o">>), NilPtrTarget(SrvT)}

\* the values the document gives n: absent, null, the empty string, a string
NameValues == {Absent, NullV, StrV(<<>>), StrV(<<"v">>)}
\* the values the document gives p: absent, the empty string, an integer, no integer
PortValues == {Absent, StrV(<<>>), IntV(8080), StrV(<<"a", "b", "c">>)}
\* the values the document gives s.p
ServerPortValues == {IntV(3000), StrV(<<"x">>)}
\* the values the document gives q
PointerValues == {Absent, StrV(<<"w">>)}

\* the mapping of the pairs whose value is not Absent
MapOf(pairs) ==
    LET present == {x \in pairs : x[2] # Absent}
    IN  [k \in {x[1] : x \in present} |-> (CHOOSE x \in present : x[1] = k)[2]]

\* n: <n>, p: <p>, q: <q>, d: true, r: 2.5, skip: k, blank: 4, hidden: k,
\* s: {h: l, p: <sp>}, db: {n: m, in: {n: t}, o: {u: 12, n: ""}}, e: b
BindDoc(n, p, sp, q) ==
    MapOf({<<K("n"), n>>, <<K("p"), p>>, <<K("q"), q>>,
           <<K("d"), BoolV(TRUE)>>,
           <<K("r"), FloatV(25, -1)>>,
           <<<<"s", "k", "i", "p">>, StrV(<<"k">>)>>,
           <<<<"b", "l", "a", "n", "k">>, IntV(4)>>,
           <<<<"h", "i", "d", "d", "e", "n">>, StrV(<<"k">>)>>,
           <<K("s"), MapV(K("h") :> StrV(<<"l">>) @@ K("p") :> sp)>>,
           <<<<"d", "b">>,
             MapV(K("n") :> StrV(<<"m">>)
                  @@ <<"i", "n">> :> MapV(K("n") :> StrV(<<"t">>))
                  @@ K("o") :> MapV(K("u") :> IntV(12) @@ K("n") :> StrV(<<>>)))>>,
           <<K("e"), StrV(<<"b">>)>>})

BindPath == InDir(ConfDir, Stem \o yamlExt)
MissingPath == InDir(ConfDir, <<"m">> \o yamlExt)

\* the file system whose file c/a.yaml holds the document
BindFs(doc) == ConfDir :> DirRec @@ BindPath :> FileRec(4096, YamlOk(doc))

BindFileSystems ==
    {BindFs(BindDoc(n, p, sp, q)) :
        n \in NameValues, p \in PortValues, sp \in ServerPortValues,
        q \in PointerValues}

InitBind ==
    /\ fs \in BindFileSystems
    /\ env = NoEnv
    /\ Idle

DoLoadInto ==
    /\ call.op = "none"
    /\ \E filePath \in {BindPath, MissingPath}, tgt \in Targets : LoadInto(filePath, tgt)

NextBind == DoLoadInto

SpecBind == InitBind /\ [][NextBind]_vars


\* LoadInto has loaded the document and handed the config to populateStruct
Bound == call.op = "LoadInto" /\ cfg.kind = "config"

\* the target is a non-nil pointer to a struct
PointsToStruct(tgt) == tgt.kind = "ptr" /\ tgt.type.kind = "struct"

\* C13: Bind with a target that is nil, no pointer, or a pointer to something that
\* is no struct (a nil *T included) fails with a validation_error and leaves the
\* target as it was.
C13_InvalidTarget ==
    (Bound /\ ~PointsToStruct(call.target))
        => (err.type = "validation_error" /\ target = call.target)

\* C13 witness: LoadInto has been handed a pointer to a string and has failed
C13_Witness ==
    /\ Bound
    /\ call.target = PtrTarget(StringT, <<"o">>)
    /\ err.type = "validation_error"
    /\ target = call.target


RECURSIVE LeavesFrom(_, _, _, _)
\* the fields Bind can reach in a value of struct type t from field i on, in
\* declaration order and depth first: the exported fields that are no struct, each
\* with the indices that lead to it (path), the struct that declares it (owner) and
\* the key segments of the struct fields that enclose it (segments), where a struct
\* field gives its konfig tag, or its lower-cased name when it has none
LeavesFrom(t, segments, path, i) ==
    IF i > Len(t.fields) THEN <<>>
    ELSE LET field == t.fields[i]
             segment == IF field.konfig # <<>> THEN field.konfig ELSE ToLower(field.name)
             here ==
                IF ~IsUpper(field.name[1]) THEN <<>>
                ELSE IF field.type.kind = "struct"
                THEN LeavesFrom(field.type, Append(segments, segment),
                                Append(path, i), 1)
                ELSE <<[field |-> field, owner |-> t.name, segments |-> segments,
                        path |-> Append(path, i)]>>
         IN  here \o LeavesFrom(t, segments, path, i + 1)

Leaves(t) == LeavesFrom(t, <<>>, <<>>, 1)

\* the leaves of the target of the call
CallLeaves == Leaves(call.target.type)

RECURSIVE At(_, _)
\* the value a path of field indices leads to in a struct value
At(v, path) == IF path = <<>> THEN v ELSE At(v[Head(path)], Tail(path))

\* the value of a leaf before and after the call
Before(leaf) == At(call.target.v, leaf.path)
After(leaf) == At(target.v, leaf.path)

\* the effective key of a leaf: its enclosing segments and its own tag, joined by dots
EffectiveKey(leaf) == JoinWith(Append(leaf.segments, leaf.field.konfig), <<".">>)

\* a leaf Bind binds: it has a konfig tag and a kind setFieldValue converts to
Tagged(leaf) == leaf.field.konfig # <<>>
Convertible(leaf) ==
    leaf.field.type.kind \in {"string", "int", "uint", "float64", "bool", "duration"}

\* the text coerced to a kind: [ok, v]
Coerce(kind, text) ==
    CASE kind = "string" -> Yes(text)
      [] kind = "int" -> ParseInt(text)
      [] kind = "uint" -> ParseUint(text)
      [] kind = "float64" -> ParseFloat(text)
      [] kind = "bool" -> ParseBool(text)
      [] kind = "duration" -> ParseDuration(text)

\* the namespace holds a non-null value at the key
HoldsValue(key) == key \in DOMAIN cfg.data /\ cfg.data[key].kind # "null"

\* LoadInto has walked the fields of a struct
Walked == Bound /\ PointsToStruct(call.target)


\* the field of a leaf holds what the claim C14 gives it: the coerced value of the
\* key, else the coerced default, else what it held before
GetsItsValue(leaf) ==
    LET key == EffectiveKey(leaf)
        kind == leaf.field.type.kind
        default == leaf.field.default
    IN  IF HoldsValue(key)
        THEN Coerce(kind, Sprint(cfg.data[key])).ok
                => After(leaf) = Coerce(kind, Sprint(cfg.data[key])).v
        ELSE IF default # <<>>
        THEN Coerce(kind, default).ok => After(leaf) = Coerce(kind, default).v
        ELSE After(leaf) = Before(leaf)

\* C14: after a Bind without error every tagged field that is no struct holds the
\* value of its effective key coerced to its kind if the namespace holds a non-null
\* value there, else its coerced default literal if it has a default tag, else the
\* value it had (its zero value on a fresh target).
C14_ValueSource ==
    (Walked /\ err = NoErr)
        => \A i \in 1..Len(CallLeaves) :
               (Tagged(CallLeaves[i]) /\ Convertible(CallLeaves[i]))
                   => GetsItsValue(CallLeaves[i])


\* the target of the call was zero-initialised
FreshTarget == call.target.v = Zero(call.target.type)

\* the document gives the key of the leaf the empty string
ExplicitlyEmpty(leaf) ==
    /\ EffectiveKey(leaf) \in DOMAIN cfg.data
    /\ cfg.data[EffectiveKey(leaf)] = StrV(<<>>)

\* C15: when the document gives a field's key an explicitly empty value, Bind on a
\* zero-initialised target does not apply the default literal: the field ends up
\* with its zero value, whatever its default tag says.
C15_EmptyOverridesDefault ==
    (Walked /\ FreshTarget)
        => \A i \in 1..Len(CallLeaves) :
               (Tagged(CallLeaves[i]) /\ Convertible(CallLeaves[i])
                /\ ExplicitlyEmpty(CallLeaves[i]))
                   => After(CallLeaves[i]) = Zero(CallLeaves[i].field.type)

\* C15 witness: n and p are explicitly empty, and the fields Name (default "dn") and
\* Port (default "7") of a fresh App are empty and 0 after a Bind without error
C15_Witness ==
    /\ Walked
    /\ call.target = PtrTarget(AppT, Zero(AppT))
    /\ {K("n"), K("p")} \subseteq DOMAIN cfg.data
    /\ cfg.data[K("n")] = StrV(<<>>)
    /\ cfg.data[K("p")] = StrV(<<>>)
    /\ err = NoErr
    /\ target.v[1] = <<>>
    /\ target.v[2] = 0
    /\ target.v[11] = <<"b">>


\* the namespace holds at the key a value whose text is not empty
HoldsText(key) == HoldsValue(key) /\ Sprint(cfg.data[key]) # <<>>

TextOf(leaf) ==
    IF HoldsValue(EffectiveKey(leaf)) THEN Sprint(cfg.data[EffectiveKey(leaf)])
    ELSE leaf.field.default

\* the text of the leaf is not empty and cannot be coerced to the kind of its field
Uncoercible(leaf) ==
    /\ Tagged(leaf) /\ Convertible(leaf)
    /\ TextOf(leaf) # <<>>
    /\ ~Coerce(leaf.field.type.kind, TextOf(leaf)).ok

\* the leaves of the target, by position, whose text cannot be coerced
Failing == {i \in 1..Len(CallLeaves) : Uncoercible(CallLeaves[i])}

\* the first of them in declaration order
FirstFailing == CHOOSE i \in Failing : \A j \in Failing : i <= j

\* the value Bind assigns to a leaf whose text can be coerced
Assigned(leaf) ==
    IF Tagged(leaf) /\ Convertible(leaf) /\ TextOf(leaf) # <<>>
    THEN Coerce(leaf.field.type.kind, TextOf(leaf)).v
    ELSE Before(leaf)

\* C18: Bind visits the fields in declaration order. When the text of a field
\* cannot be coerced, Bind returns a type_error that names the field (struct type
\* and field name) and carries the offending text; every field before it holds the
\* value Bind assigned to it, and the failing field and every field after it hold
\* what they held before the call.
C18_StopsAtFirstFailure ==
    (Walked /\ Failing # {})
        => LET bad == CallLeaves[FirstFailing]
           IN  /\ err.type = "type_error"
               /\ err.path = bad.owner \o <<".">> \o bad.field.name
               /\ err.cause.type = "error"
               /\ err.cause.message[2] = TextOf(bad)
               /\ \A j \in 1..Len(CallLeaves) :
                      IF j < FirstFailing
                      THEN After(CallLeaves[j]) = Assigned(CallLeaves[j])
                      ELSE After(CallLeaves[j]) = Before(CallLeaves[j])

\* C18 witness: s.p is "x"; an App whose fields all hold values fails at Srv.Port
\* with Name, Port and Server.Host assigned and Server.Port, Db and Last as before
C18_Witness ==
    /\ Walked
    /\ call.target = PtrTarget(AppT, Filled(AppT))
    /\ err.type = "type_error"
    /\ err.path = <<"S", "r", "v", ".", "P", "o", "r", "t">>
    /\ err.cause.message[2] = <<"x">>
    /\ target.v[1] = <<"v">>
    /\ target.v[2] = 8080
    /\ target.v[9] = <<<<"l">>, 1>>
    /\ target.v[10] = Filled(DbT)
    /\ target.v[11] = <<"o">>


\* the field of the leaf is a pointer
Pointer(leaf) == leaf.field.type.kind = "ptr"

\* C19: a pointer-typed field is left untouched by Bind and causes no error, also
\* when it has a konfig tag and a default tag or when the namespace holds its key;
\* the other fields are bound as usual. (Calls in which the text of some other
\* field cannot be coerced are set aside.)
C19_PointerSkipped ==
    (Walked /\ Failing = {})
        => /\ err = NoErr
           /\ \A i \in 1..Len(CallLeaves) :
                  After(CallLeaves[i]) =
                      IF Pointer(CallLeaves[i]) THEN Before(CallLeaves[i])
                      ELSE Assigned(CallLeaves[i])


RECURSIVE ScalarLeaves(_, _)
\* the leaves of a mapping: every value that is no mapping, with the keys on the
\* way to it
ScalarLeaves(m, path) ==
    UNION {IF m[key].kind = "map"
           THEN ScalarLeaves(m[key].entries, Append(path, key))
           ELSE {<<Append(path, key), m[key]>>} : key \in DOMAIN m}

\* the root mapping of the document LoadInto has read
BoundDoc == fs[call.path].yaml.root

\* C20: the namespace of a loaded document holds, for every leaf reached through
\* nested mappings, the leaf's value at the key made of the mapping keys on its
\* path joined with '.', without a leading dot, and it holds nothing else: no key
\* stands for an intermediate mapping.
C20_Flattening ==
    Bound
        => /\ \A leaf \in ScalarLeaves(BoundDoc, <<>>) :
                  /\ JoinWith(leaf[1], <<".">>) \in DOMAIN cfg.data
                  /\ cfg.data[JoinWith(leaf[1], <<".">>)] = leaf[2]
           /\ \A key \in DOMAIN cfg.data :
                  /\ cfg.data[key].kind # "map"
                  /\ key[1] # "."
                  /\ \E leaf \in ScalarLeaves(BoundDoc, <<>>) :
                         key = JoinWith(leaf[1], <<".">>)

\* C20 witness: db: {o: {u: 12}} and s: {h: l} are loaded as db.o.u = 12 and
\* s.h = l, and s, db and db.o are no keys
C20_Witness ==
    /\ Bound
    /\ BoundDoc[<<"d", "b">>].entries[K("o")].entries[K("u")] = IntV(12)
    /\ <<"d", "b", ".", "o", ".", "u">> \in DOMAIN cfg.data
    /\ cfg.data[<<"d", "b", ".", "o", ".", "u">>] = IntV(12)
    /\ cfg.data[<<"s", ".", "h">>] = StrV(<<"l">>)
    /\ DOMAIN cfg.data \cap {K("s"), <<"d", "b">>, <<"d", "b", ".", "o">>} = {}

----------------------------------------------------------------------------
(* SpecFlatten: Load of documents with dotted, empty and blank keys, empty
   mappings, typed scalars and sequences *)

\* ${A}
RefA == <<"$", "{", "A", "}">>
\* a placeholder with an empty name and the default d
NoNameRef == <<"$", "{", ":", "d", "}">>

\* the values at the leaves: an integer, a boolean, a string with a placeholder, a
\* sequence one of whose elements has a placeholder, a sequence of integers
LeafValues ==
    {IntV(1), BoolV(TRUE), StrV(<<"x">> \o RefA), StrV(RefA), StrV(NoNameRef),
     SeqV(<<StrV(<<"x">>), StrV(RefA)>>), SeqV(<<IntV(2), IntV(1)>>)}

\* the keys of the mappings below the root: b, the empty key, a blank key
InnerKeys == {K("b"), <<>>, K(" ")}

\* the mappings below the root: the empty mapping and those of one entry
InnerMaps == {MapV(<<>>)} \cup {MapV(k :> v) : k \in InnerKeys, v \in LeafValues}

\* the keys of the root: a, the dotted key a.b, the empty key, a blank key
RootKeys == {K("a"), <<"a", ".", "b">>, <<>>, K(" ")}

\* the root mappings of one entry
Fragments == {k :> v : k \in RootKeys, v \in LeafValues \cup InnerMaps}

\* the documents: root mappings of one or two entries
FlattenDocs == {f @@ g : f \in Fragments, g \in Fragments}

FlattenPath == InDir(ConfDir, Stem \o yamlExt)

FlattenFs(doc) == ConfDir :> DirRec @@ FlattenPath :> FileRec(4096, YamlOk(doc))

\* A is unset, or set to v
FlattenEnvs == {NoEnv, VarA :> <<"v">>, VarA :> <<"1">>}

InitFlatten ==
    /\ fs \in {FlattenFs(doc) : doc \in FlattenDocs}
    /\ env \in FlattenEnvs
    /\ Idle

DoLoadFlatten == call.op = "none" /\ Load(FlattenPath)

NextFlatten == DoLoadFlatten

SpecFlatten == InitFlatten /\ [][NextFlatten]_vars

\* Load has returned the namespace of the document
Flattened == call.op = "Load" /\ Loaded

\* the root mapping of the document Load has read
LoadedDoc == fs[call.path].yaml.root


RECURSIVE Renest(_)
\* the tree re-nested from pairs of a key split into its segments and a value: a
\* segment that ends a key holds the value, any other holds the mapping of the
\* keys that go on below it
Renest(pairs) ==
    [head \in {p[1][1] : p \in pairs} |->
        LET under == {p \in pairs : p[1][1] = head}
            ends == {p \in under : Len(p[1]) = 1}
        IN  IF ends # {} THEN (CHOOSE p \in ends : TRUE)[2]
            ELSE MapV(Renest({<<Tail(p[1]), p[2]>> : p \in under}))]

\* the tree re-nested from a flat map by splitting each key on '.'
RenestFlat(flat) == Renest({<<Split(key, "."), flat[key]>> : key \in DOMAIN flat})

RECURSIVE Nestable(_)
\* no key of the mapping or of a mapping below it contains a dot, and no mapping
\* below it is empty
Nestable(m) ==
    \A key \in DOMAIN m :
        /\ \A i \in 1..Len(key) : key[i] # "."
        /\ m[key].kind = "map"
              => (DOMAIN m[key].entries # {} /\ Nestable(m[key].entries))

\* C21: for every document, re-nesting what flattenMap returns by
\* splitting each key on '.' gives the parsed document back.
C21_RoundTrip ==
    Flattened
        => \A flat \in flattenMap(LoadedDoc, <<>>) : RenestFlat(flat) = LoadedDoc

\* the top-level empty key, if the document has one, does not hold a mapping
RootNamed(m) == <<>> \in DOMAIN m => m[<<>>].kind # "map"

\* the part of C21 that holds: the round trip for the documents in which no mapping
\* key contains a dot, no nested mapping is empty and the top-level empty key holds
\* no mapping.
C21_RoundTripNestable ==
    (Flattened /\ Nestable(LoadedDoc) /\ RootNamed(LoadedDoc))
        => \A flat \in flattenMap(LoadedDoc, <<>>) : RenestFlat(flat) = LoadedDoc


----------------------------------------------------------------------------
(* The loader that exports to the environment: loader.go and LoadFrom *)

\* fmt.Errorf(format, args...) where the arguments are worth keeping apart
Errorf(format, args) == [type |-> "error", message |-> format, args |-> args]

Letters ==
    {"a", "b", "c", "d", "e", "f", "g", "h", "i", "j", "k", "l", "m", "n", "o", "p",
     "q", "r", "s", "t", "u", "v", "w", "x", "y", "z", "A", "B", "C", "D", "E", "F",
     "G", "H", "I", "J", "K", "L", "M", "N", "O", "P", "Q", "R", "S", "T", "U", "V",
     "W", "X", "Y", "Z"}

\* os.isShellSpecialVar
isShellSpecialVar(c) == c \in {"*", "#", "$", "@", "!", "?", "-"} \/ IsDigit(c)

\* os.isAlphaNum
isAlphaNum(c) == c = "_" \/ IsDigit(c) \/ c \in Letters

\* os.getShellName on the text after a '$': the name and the bytes consumed
getShellName(s) ==
    IF s[1] = "{"
    THEN IF Len(s) > 2 /\ isShellSpecialVar(s[2]) /\ s[3] = "}"
         THEN [name |-> <<s[2]>>, w |-> 3]
         ELSE LET i == IndexFrom(s, 2, "}")
              IN  IF i = 0 THEN [name |-> <<>>, w |-> 1]
                  ELSE IF i = 2 THEN [name |-> <<>>, w |-> 2]
                  ELSE [name |-> SubSeq(s, 2, i - 1), w |-> i]
    ELSE IF isShellSpecialVar(s[1]) THEN [name |-> <<s[1]>>, w |-> 1]
    ELSE LET stops == {i \in 1..Len(s) : ~isAlphaNum(s[i])}
             n == IF stops = {} THEN Len(s)
                  ELSE (CHOOSE x \in stops : \A y \in stops : x <= y) - 1
         IN  [name |-> SubSeq(s, 1, n), w |-> n]

\* enrichValue of loader.go
enrichValue(e, value) ==
    LET index == IndexFrom(value, 1, ":")
        key == SubSeq(value, 1, index - 1)
        defaultValue == Tail_(value, index + 1)
    IN  IF index = 0 THEN Getenv(e, value)
        ELSE IF Getenv(e, key) # <<>> THEN Getenv(e, key)
        ELSE defaultValue

\* enrichValue that gives the default whenever there is one
enrichDefaultFirst(e, value) ==
    LET index == IndexFrom(value, 1, ":")
    IN  IF index = 0 THEN Getenv(e, value) ELSE Tail_(value, index + 1)

RECURSIVE Expand(_, _)
\* os.Expand(s, enrichValue): a '$' that has a byte after it opens a reference
Expand(s, e) ==
    LET dollars == {j \in 1..(Len(s) - 1) : s[j] = "$"}
        j == CHOOSE x \in dollars : \A y \in dollars : x <= y
        shell == getShellName(Tail_(s, j + 1))
        out == IF shell.name = <<>> /\ shell.w > 0 THEN <<>>
               ELSE IF shell.name = <<>> THEN <<"$">>
               ELSE enrichValue(e, shell.name)
    IN  IF dollars = {} THEN s
        ELSE SubSeq(s, 1, j - 1) \o out \o Expand(Tail_(s, j + shell.w + 1), e)

\* what yaml.Unmarshal makes of a plain scalar with this text
plainScalar(text) ==
    IF text = <<>> THEN NullV
    ELSE IF AllDigits(text) THEN IntV(NatVal(text))
    ELSE IF text = <<"t", "r", "u", "e">> THEN BoolV(TRUE)
    ELSE IF text = <<"f", "a", "l", "s", "e">> THEN BoolV(FALSE)
    ELSE StrV(text)

RECURSIVE expandNode(_, _)
\* the node parsed from the expanded text of a node: a scalar that held a
\* reference is a plain scalar and is resolved anew from its expanded text
expandNode(v, e) ==
    CASE v.kind = "str" -> IF Expand(v.v, e) = v.v THEN v ELSE plainScalar(Expand(v.v, e))
      [] v.kind = "map" -> MapV([k \in DOMAIN v.entries |-> expandNode(v.entries[k], e)])
      [] v.kind = "seq" -> SeqV([i \in 1..Len(v.items) |-> expandNode(v.items[i], e)])
      [] OTHER -> v

\* the root of the project, where findRootPath finds go.mod
RootPath == ConfDir

\* localConfigMapFromFile: readConfigFile, os.Expand on the text, yaml.Unmarshal
localConfigMapFromFile(f, e, pathToConfigFile) ==
    LET full == Join(RootPath, pathToConfigFile)
    IN  IF ~StatOk(f, full) \/ f[Clean(full)].kind = "dir"
        THEN [configMap |-> <<>>,
              err |-> PlainErr("error reading configuration file")]
        ELSE IF ~f[Clean(full)].yaml.ok
        THEN [configMap |-> <<>>,
              err |-> PlainErr("error unmarshalling configuration file")]
        ELSE [configMap |-> expandNode(MapV(f[Clean(full)].yaml.root), e).entries,
              err |-> NoErr]

\* updatePrefix
updatePrefix(prefix, key) == IF prefix = <<>> THEN key ELSE prefix \o <<".">> \o key

RECURSIVE processConfigWrites(_, _)
\* the writes processConfig makes to resultConfigMap, as (key, value) pairs
processConfigWrites(prefix, configMap) ==
    UNION {
        LET updatedPrefix == updatePrefix(prefix, key)
            v == configMap[key]
        IN  IF v.kind = "map" THEN processConfigWrites(updatedPrefix, v.entries)
            ELSE {<<updatedPrefix, v>>}
        : key \in DOMAIN configMap }

\* buildEnvVariables: the maps processConfig can leave in resultConfigMap; a key
\* written more than once keeps the write of the entry the range visited last
buildEnvVariables(configMap) ==
    LET writes == processConfigWrites(<<>>, configMap)
        keys == {w[1] : w \in writes}
        written(k) == {w[2] : w \in {x \in writes : x[1] = k}}
    IN  {resultConfigMap \in [keys -> {w[2] : w \in writes}] :
            \A k \in keys : resultConfigMap[k] \in written(k)}

\* os.Setenv returns an error: an empty key or a key with '='
SetenvFails(key) == key = <<>> \/ \E i \in 1..Len(key) : key[i] = "="

\* SetEnv on an environment
SetEnv(e, key, value) == [k \in DOMAIN e \cup {key} |-> IF k = key THEN value ELSE e[k]]

RECURSIVE postProcessExportsAll(_, _, _, _)
\* postProcessConfig that exports every property and prints a nil as <nil>
postProcessExportsAll(resultConfigMap, order, i, e) ==
    IF i > Len(order) THEN [err |-> NoErr, env |-> e]
    ELSE postProcessExportsAll(resultConfigMap, order, i + 1,
                               SetEnv(e, order[i], Sprint(resultConfigMap[order[i]])))

RECURSIVE postProcessConfig(_, _, _, _)
\* postProcessConfig when the range visits the keys in this order, from the i-th
postProcessConfig(resultConfigMap, order, i, e) ==
    IF i > Len(order) THEN [err |-> NoErr, env |-> e]
    ELSE LET key == order[i]
             value == resultConfigMap[key]
         IN  IF value.kind = "null"
             THEN [err |-> Errorf("property '%s' is nil", <<key>>), env |-> e]
             ELSE IF SetenvFails(key)
             THEN [err |-> PlainErr("error setting environment variable"), env |-> e]
             ELSE postProcessConfig(resultConfigMap, order, i + 1,
                                    SetEnv(e, key, Sprint(value)))

\* LoadFrom: the error it can return and the environment it leaves
LoadFromResults(f, e, pathToConfigFile) ==
    LET loaded == localConfigMapFromFile(f, e, pathToConfigFile)
    IN  IF loaded.err # NoErr
        THEN {[err |-> Errorf("error loading config from %s: %w",
                              <<pathToConfigFile, loaded.err.message>>),
               env |-> e]}
        ELSE UNION {{postProcessConfig(resultConfigMap, order, 1, e) :
                        order \in Orders(DOMAIN resultConfigMap)} :
                    resultConfigMap \in buildEnvVariables(loaded.configMap)}

\* err := LoadFrom(pathToConfigFile)
LoadFrom(pathToConfigFile) ==
    \E r \in LoadFromResults(fs, env, pathToConfigFile) :
        /\ call' = [op |-> "LoadFrom", path |-> pathToConfigFile, profile |-> <<>>,
                    env |-> env]
        /\ err' = r.err
        /\ env' = r.env
        /\ UNCHANGED <<fs, cfg, ret, reads, target, heap, gor>>


(* SpecExport: LoadFrom of documents with null, empty, scalar and sequence
   properties, some written as references to the environment *)
ExportLeaves ==
    {NullV, StrV(<<"x">>), StrV(<<>>), IntV(1), StrV(RefA),
     StrV(<<"$", "{", "A", ":", "d", "}">>), StrV(NoNameRef),
     SeqV(<<StrV(<<"x">>), NullV>>)}
ExportMaps == {MapV(K("b") :> v) : v \in ExportLeaves}
ExportKeys == {K("a"), K("k"), <<"a", ".", "b">>, <<>>, <<"a", "=", "b">>}
ExportFragments == {k :> v : k \in ExportKeys, v \in ExportLeaves \cup ExportMaps}
ExportDocs == {f @@ g : f \in ExportFragments, g \in ExportFragments}
ExportFile == Stem \o yamlExt
ExportFs(doc) == ConfDir :> DirRec @@ InDir(ConfDir, ExportFile) :> FileRec(4096, YamlOk(doc))
ExportEnvs == {NoEnv, VarA :> <<"v">>, K("k") :> <<"o">>}

\* the project root without the file, and with a file that is no YAML
ExportFailing == {ConfDir :> DirRec, ConfDir :> DirRec @@ InDir(ConfDir, ExportFile) :> Malformed}

InitExport ==
    /\ fs \in {ExportFs(doc) : doc \in ExportDocs} \cup ExportFailing
    /\ env \in ExportEnvs
    /\ Idle

DoLoadFrom == call.op = "none" /\ LoadFrom(ExportFile)

NextExport == DoLoadFrom

SpecExport == InitExport /\ [][NextExport]_vars

\* LoadFrom has returned
Exported == call.op = "LoadFrom"
\* the parsed document LoadFrom read
ExportedDoc ==
    IF localConfigMapFromFile(fs, call.env, ExportFile).err = NoErr
    THEN fs[InDir(ConfDir, ExportFile)].yaml.root
    ELSE <<>>

\* the flattened documents the export can be working on
ExportedFlats == buildEnvVariables(expandNode(MapV(ExportedDoc), call.env).entries)
\* the terminal properties of a flattened document that are null
NullKeys(flat) == {k \in DOMAIN flat : flat[k].kind = "null"}
\* the error names a null property of a flattened document
NamesNullKey ==
    \E flat \in ExportedFlats : \E k \in NullKeys(flat) :
        err = Errorf("property '%s' is nil", <<k>>)
\* the error is a "property is nil" error
IsNilError == err.type = "error" /\ err.message = "property '%s' is nil"
\* every flattened document has a null terminal property
SomeNull == \A flat \in ExportedFlats : NullKeys(flat) # {}
\* no flattened document has a null terminal property
NoNull == \A flat \in ExportedFlats : NullKeys(flat) = {}
\* os.Setenv accepts every key of every flattened document
KeysAccepted == \A flat \in ExportedFlats : \A k \in DOMAIN flat : ~SetenvFails(k)

\* C22: an export of a flattened document with a null terminal property fails
\* with "property '<key>' is nil" naming a null property, and an export of one
\* with no null terminal property does not fail with that error.
C22_NilProperty ==
    Exported => /\ SomeNull => NamesNullKey
                /\ NoNull => ~IsNilError

\* C22 amended: the same when os.Setenv accepts every key; when it rejects one,
\* the export of a document with a null terminal property still fails, with
\* "property '<key>' is nil" or with "error setting environment variable".
C22_NilPropertyOrSetenv ==
    Exported => /\ (SomeNull /\ KeysAccepted) => NamesNullKey
                /\ SomeNull => (NamesNullKey
                                \/ err = PlainErr("error setting environment variable"))
                /\ NoNull => ~IsNilError

\* C22 witness: {a: {b: null}, k: x} was exported and the error names a.b
C22_Witness ==
    /\ Exported
    /\ ExportedDoc = (K("a") :> MapV(K("b") :> NullV) @@ K("k") :> StrV(<<"x">>))
    /\ err = Errorf("property '%s' is nil", <<<<"a", ".", "b">>>>)


\* the paths of the leaves of the loaded document
LeafPaths == {leaf[1] : leaf \in ScalarLeaves(LoadedDoc, <<>>)}

\* C23: the namespace of a loaded document holds exactly one entry per leaf of the
\* tree, and flattening gives one namespace whatever the order in which the
\* mapping keys are visited.
C23_OneEntryPerLeaf ==
    Flattened
        => /\ Cardinality(DOMAIN cfg.data) = Cardinality(LeafPaths)
           /\ Cardinality(flattenMap(LoadedDoc, <<>>)) = 1


\* flattening the loaded document gives one map, whatever the visiting order
OneFlat == Cardinality(flattenMap(LoadedDoc, <<>>)) = 1

\* C24: a sequence of the document is in the loaded namespace, under its key, a
\* list of as many elements in the same order, also when an element holds a
\* placeholder: an element without a placeholder is the element of the document.
C24_SequenceStaysList ==
    (Flattened /\ OneFlat)
        => \A flat \in flattenMap(LoadedDoc, <<>>) : \A key \in DOMAIN flat :
               flat[key].kind = "seq"
                   => /\ cfg.data[key].kind = "seq"
                      /\ Len(cfg.data[key].items) = Len(flat[key].items)
                      /\ \A i \in 1..Len(flat[key].items) :
                             ReplaceAllEnv(Sprint(flat[key].items[i]), env)
                                 = Sprint(flat[key].items[i])
                             => cfg.data[key].items[i] = flat[key].items[i]


\* the text of a value before and after the placeholders are replaced
TextBefore(v) == Sprint(v)
TextAfter(v) == ReplaceAllEnv(Sprint(v), env)

\* C25: in the loaded namespace a scalar whose text the interpolation left as it
\* was is the typed scalar of the document (an integer is an integer, a boolean a
\* boolean), and a scalar whose text the interpolation changed is the string of
\* the new text, also when that text reads as a number.
C25_TypesKept ==
    (Flattened /\ OneFlat)
        => \A flat \in flattenMap(LoadedDoc, <<>>) : \A key \in DOMAIN flat :
               flat[key].kind \in {"int", "bool", "str"}
                   => /\ flat[key].kind \in {"int", "bool"} => cfg.data[key] = flat[key]
                      /\ TextAfter(flat[key]) = TextBefore(flat[key])
                             => cfg.data[key] = flat[key]
                      /\ TextAfter(flat[key]) # TextBefore(flat[key])
                             => cfg.data[key] = StrV(TextAfter(flat[key]))

\* C25 witness: {a: 1, "a.b": ${A}} loaded with A=1 holds the integer 1 under a
\* and the string "1" under a.b
C25_Witness ==
    /\ Flattened
    /\ LoadedDoc = (K("a") :> IntV(1) @@ <<"a", ".", "b">> :> StrV(RefA))
    /\ env = VarA :> <<"1">>
    /\ cfg.data[K("a")] = IntV(1)
    /\ cfg.data[<<"a", ".", "b">>] = StrV(<<"1">>)


\* C26: a scalar that is the placeholder ${:d}, with an empty name before the
\* colon, is loaded as its default d, and the load does not fail.
C26_EmptyNameDefault ==
    (call.op = "Load" /\ OneFlat)
        => /\ Loaded
           /\ \A flat \in flattenMap(LoadedDoc, <<>>) : \A key \in DOMAIN flat :
                  flat[key] = StrV(NoNameRef) => cfg.data[key] = StrV(<<"d">>)

\* the part of C26 that holds: LoadFrom reads a property written ${:d} as d
C26_LegacyDefault ==
    (Exported /\ ExportedDoc = K("a") :> StrV(NoNameRef))
        => (err = NoErr /\ env = SetEnv(call.env, K("a"), <<"d">>))


\* a key or segment that is empty or made of spaces only
Blank(s) == \A i \in 1..Len(s) : s[i] = " "

\* C27: no key of the loaded namespace comes from an entry with an empty or blank
\* key: no key is empty, starts or ends with '.', or has an empty or blank segment.
C27_BlankKeysSkipped ==
    Flattened
        => \A key \in DOMAIN cfg.data :
               /\ key # <<>>
               /\ key[1] # "." /\ key[Len(key)] # "."
               /\ \A i \in 1..Len(Split(key, ".")) : ~Blank(Split(key, ".")[i])


\* goroutine g has returned from Keys()
KeysReturned(g) == gor[g].pc = "done" /\ gor[g].op = "Keys"

\* C28: two calls of Keys() on one Config return the same sequence of keys, each
\* key of the namespace once.
C28_KeysReproducible ==
    \A g \in Goroutines, h \in Goroutines :
        (KeysReturned(g) /\ KeysReturned(h) /\ gor[g].on = gor[h].on)
            => /\ gor[g].result = gor[h].result
               /\ Len(gor[g].result) = Cardinality(DOMAIN heap[gor[g].on].data)
               /\ {gor[g].result[i] : i \in 1..Len(gor[g].result)}
                      = DOMAIN heap[gor[g].on].data


\* C29: when LoadFrom returns an error, the environment is the one from before the
\* call: no key of the document has been written to it.
C29_ExportAllOrNothing ==
    (Exported /\ err # NoErr) => env = call.env


\* a LoadFrom that cannot read or parse the file leaves the environment alone
ExportReadFailure ==
    (Exported /\ fs \in ExportFailing)
        => (err.type = "error" /\ err.message = "error loading config from %s: %w"
            /\ env = call.env)


----------------------------------------------------------------------------
(* SpecNarrow: LoadInto of a struct of narrow integer fields *)

\* type Narrow struct {
\*     A int8   `konfig:"a"`
\*     B int16  `konfig:"b"`
\*     C uint8  `konfig:"c"`
\*     D uint16 `konfig:"d"`
\* }
NarrowT ==
    StructT(<<"N", "a", "r", "r", "o", "w">>,
            <<Field(<<"A">>, K("a"), <<>>, ScalarT("int8")),
              Field(<<"B">>, K("b"), <<>>, ScalarT("int16")),
              Field(<<"C">>, K("c"), <<>>, ScalarT("uint8")),
              Field(<<"D">>, K("d"), <<>>, ScalarT("uint16"))>>)

\* the values the document gives a, b, c and d: in the range of the field, at its
\* ends, outside it, and no number
NarrowValues ==
    [a |-> {IntV(7), IntV(127), IntV(128), IntV(-128), IntV(-129), IntV(300)},
     b |-> {IntV(7), IntV(32767), IntV(32768), IntV(70000)},
     c |-> {IntV(255), IntV(300), IntV(-1)},
     d |-> {IntV(65535), IntV(65541), StrV(<<"x">>)}]

NarrowDocs ==
    {K("a") :> a @@ K("b") :> b @@ K("c") :> c @@ K("d") :> d :
        a \in NarrowValues.a, b \in NarrowValues.b, c \in NarrowValues.c,
        d \in NarrowValues.d}

InitNarrow ==
    /\ fs \in {BindFs(doc) : doc \in NarrowDocs}
    /\ env = NoEnv
    /\ Idle

DoLoadNarrow == call.op = "none" /\ LoadInto(BindPath, PtrTarget(NarrowT, Zero(NarrowT)))

NextNarrow == DoLoadNarrow

SpecNarrow == InitNarrow /\ [][NextNarrow]_vars

\* the numbers a field of a narrow kind can hold
InRange(kind, x) ==
    IF kind \in SignedNarrow
    THEN -Pow2(Bits(kind) - 1) <= x /\ x < Pow2(Bits(kind) - 1)
    ELSE 0 <= x /\ x < Pow2(Bits(kind))

\* the 64-bit number the text parses as, for a field of this kind
Parsed64(kind, text) == IF kind \in SignedNarrow THEN ParseInt(text) ELSE ParseUint(text)

\* the value of field i parses as a 64-bit number that its kind cannot hold
Overflows(i) ==
    LET kind == NarrowT.fields[i].type.kind
        text == Sprint(cfg.data[NarrowT.fields[i].konfig])
    IN  Parsed64(kind, text).ok /\ ~InRange(kind, Parsed64(kind, text).v)

\* the value of field i reduced modulo 2^width
Wrapped(i) ==
    LET kind == NarrowT.fields[i].type.kind
        x == Parsed64(kind, Sprint(cfg.data[NarrowT.fields[i].konfig])).v
    IN  IF kind \in SignedNarrow THEN SetInt(kind, x) ELSE SetUint(kind, x)

\* values that fit their fields are stored as they are
NarrowInRange ==
    (Bound /\ err = NoErr)
        => \A i \in 1..Len(NarrowT.fields) :
               ~Overflows(i)
                   => target.v[i] = Parsed64(NarrowT.fields[i].type.kind,
                                             Sprint(cfg.data[NarrowT.fields[i].konfig])).v

\* C30: when the value of a narrow integer field parses as a 64-bit number that
\* the field cannot hold, LoadInto fails with a type_error and the field does not
\* hold the number reduced modulo 2^width.
C30_NoWrappedInteger ==
    Bound
        => \A i \in 1..Len(NarrowT.fields) :
               Overflows(i)
                   => /\ err.type = "type_error"
                      /\ target.v[i] # Wrapped(i)

=============================================================================
